---------------------------- MODULE Spec2Model ----------------------------
(***************************************************************************)
(* A model of the ray tracing kernel of lukasweber/raytracing-challenge:   *)
(* tuples, matrices, rays, the sphere, hit selection, the canvas and the   *)
(* PPM exporter.                                                           *)
(*                                                                         *)
(* Numbers.  The code computes in f64.  A scalar of the model is an        *)
(* extended rational <<n, d>> in lowest terms with d >= 0:                 *)
(*   d > 0          the finite value n/d,                                  *)
(*   <<1, 0>>       +infinity,   <<-1, 0>>  -infinity,                     *)
(*   <<0, 0>>       NaN.                                                   *)
(* +, -, *, / are exact on finite values and follow IEEE 754 on the        *)
(* special values (x/0, inf-inf, 0*inf, comparisons with NaN).  sqrt is    *)
(* exact on perfect squares and otherwise rounded to the nearest multiple  *)
(* of 1/SqrtRes of the denominator.  The sign of zero is not modelled.     *)
(***************************************************************************)
EXTENDS Integers, Sequences, FiniteSets, TLC

(***************************************************************************)
(* Bounds of the model.                                                    *)
(***************************************************************************)
\* resolution of the rounded square root
SqrtRes == 16
\* longest list of intersections handed to from_hit
MaxHits == 3
\* largest t (in halves) of a hand-made intersection
MaxT == 3
\* largest coordinate of a ray origin / direction component
MaxCoord == 2
\* largest height or width of a matrix operand
MaxDim == 3
\* widest canvas exported
MaxWidth == 25
\* tallest canvas exported
MaxHeight == 2

(***************************************************************************)
(* f64 arithmetic                                                          *)
(***************************************************************************)
Abs(n) == IF n < 0 THEN -n ELSE n

Sgn(n) == IF n < 0 THEN -1 ELSE IF n > 0 THEN 1 ELSE 0

RECURSIVE Gcd(_, _)
Gcd(a, b) == IF b = 0 THEN a ELSE Gcd(b, a % b)

\* the scalar n/d in lowest terms; n/0 is an infinity or NaN
Norm(n, d) ==
    IF d = 0 THEN <<Sgn(n), 0>>
    ELSE LET g == Gcd(Abs(n), Abs(d))
             s == IF d < 0 THEN -1 ELSE 1
         IN  <<s * (n \div g), s * (d \div g)>>

R(n) == <<n, 1>>

NaN == <<0, 0>>

Inf == <<1, 0>>

NegInf == <<-1, 0>>

IsNaN(x) == x = NaN

IsFinite(x) == x[2] # 0

FNeg(x) == <<-x[1], x[2]>>

FAdd(x, y) ==
    IF IsNaN(x) \/ IsNaN(y) THEN NaN
    ELSE IF ~IsFinite(x) /\ ~IsFinite(y) THEN (IF x = y THEN x ELSE NaN)
    ELSE IF ~IsFinite(x) THEN x
    ELSE IF ~IsFinite(y) THEN y
    ELSE LET g == Gcd(x[2], y[2])
         IN  Norm(x[1] * (y[2] \div g) + y[1] * (x[2] \div g), x[2] * (y[2] \div g))

FSub(x, y) == FAdd(x, FNeg(y))

FMul(x, y) == Norm(x[1] * y[1], x[2] * y[2])

\* 1.0 / x
FRecip(x) ==
    IF IsNaN(x) THEN NaN
    ELSE IF x[1] = 0 THEN Inf
    ELSE IF x[1] < 0 THEN <<-x[2], -x[1]>>
    ELSE <<x[2], x[1]>>

FDiv(x, y) == FMul(x, FRecip(y))

\* the comparisons of f64: every comparison with NaN is false
FLt(x, y) ==
    /\ ~IsNaN(x)
    /\ ~IsNaN(y)
    /\ IF IsFinite(x) /\ IsFinite(y) THEN x[1] * y[2] < y[1] * x[2]
       ELSE (IF IsFinite(x) THEN 0 ELSE x[1]) < (IF IsFinite(y) THEN 0 ELSE y[1])

FLe(x, y) == ~IsNaN(x) /\ ~IsNaN(y) /\ ~FLt(y, x)

FGe(x, y) == FLe(y, x)

FEq(x, y) == ~IsNaN(x) /\ ~IsNaN(y) /\ x = y

\* the largest r with r*r <= n, by bisection on lo <= r < hi
RECURSIVE ISqrtIn(_, _, _)
ISqrtIn(n, lo, hi) ==
    IF hi - lo <= 1 THEN lo
    ELSE LET mid == (lo + hi) \div 2
         IN  IF mid * mid <= n THEN ISqrtIn(n, mid, hi) ELSE ISqrtIn(n, lo, mid)

ISqrt(n) == ISqrtIn(n, 0, IF n < 46340 THEN n + 1 ELSE 46340)

\* f64::sqrt: NaN for NaN and negative values, otherwise the rounded root
FSqrt(x) ==
    IF IsNaN(x) \/ FLt(x, R(0)) THEN NaN
    ELSE IF ~IsFinite(x) THEN Inf
    ELSE LET r == ISqrt(x[1] * x[2])
         IN  IF r * r = x[1] * x[2] THEN Norm(r, x[2])
             ELSE Norm((ISqrt(4 * x[1] * x[2] * SqrtRes * SqrtRes) + 1) \div 2,
                       x[2] * SqrtRes)

\* float_cmp's approx_eq!(f64, a, b, epsilon = 0.00001), ulps = 4 by default:
\* a == b, or |a - b| <= epsilon, or the bit patterns at most 4 ulps apart.  For
\* the finite values of the model 4 ulps are far below epsilon; two NaN are
\* 0 ulps apart when their bits agree, which the model does not follow: both
\* outcomes are possible.  The result is the set of the possible outcomes.
EPSILON_DENOMINATOR == 100000

WithinEpsilon(a, b) ==
    LET d == FSub(a, b)
    IN  /\ IsFinite(d)
        /\ Abs(d[1]) < d[2]
        /\ Abs(d[1]) <= d[2] \div EPSILON_DENOMINATOR

ApproxEq(a, b) ==
    IF IsNaN(a) /\ IsNaN(b) THEN BOOLEAN
    ELSE IF IsNaN(a) \/ IsNaN(b) THEN {FALSE}
    ELSE {a = b \/ WithinEpsilon(a, b)}

(***************************************************************************)
(* Tuple (tuple.rs)                                                        *)
(***************************************************************************)
Tuple(x, y, z, w) == [x |-> x, y |-> y, z |-> z, w |-> w]

Point(x, y, z) == Tuple(x, y, z, R(1))

Vector(x, y, z) == Tuple(x, y, z, R(0))

IsPoint(a) == FEq(a.w, R(1))

IsVector(a) == FEq(a.w, R(0))

\* impl PartialEq for Tuple: the outcomes of a == b
TupleEq(a, b) ==
    { e \in BOOLEAN :
        LET each == <<ApproxEq(a.x, b.x), ApproxEq(a.y, b.y), ApproxEq(a.z, b.z),
                      ApproxEq(a.w, b.w)>>
        IN  IF e THEN \A i \in 1..4 : TRUE \in each[i]
            ELSE \E i \in 1..4 : FALSE \in each[i] }

\* the sum mutated: w is taken from the left operand
TupleAddKeepW(a, b) == Tuple(FAdd(a.x, b.x), FAdd(a.y, b.y), FAdd(a.z, b.z), a.w)

TupleAdd(a, b) ==
    Tuple(FAdd(a.x, b.x), FAdd(a.y, b.y), FAdd(a.z, b.z), FAdd(a.w, b.w))

TupleNeg(a) == Tuple(FNeg(a.x), FNeg(a.y), FNeg(a.z), FNeg(a.w))

\* impl Mul<f64> for &Tuple
TupleMul(a, f) == Tuple(FMul(a.x, f), FMul(a.y, f), FMul(a.z, f), FMul(a.w, f))

\* impl Div<f64> for &Tuple
TupleDiv(a, f) == Tuple(FDiv(a.x, f), FDiv(a.y, f), FDiv(a.z, f), FDiv(a.w, f))

\* the difference mutated: the operands exchanged
TupleSubReversed(a, b) ==
    Tuple(FSub(b.x, a.x), FSub(b.y, a.y), FSub(b.z, a.z), FSub(b.w, a.w))

TupleSub(a, b) ==
    Tuple(FSub(a.x, b.x), FSub(a.y, b.y), FSub(a.z, b.z), FSub(a.w, b.w))

\* (x^2 + y^2 + z^2 + w^2).sqrt()
Magnitude(a) ==
    FSqrt(FAdd(FAdd(FAdd(FMul(a.x, a.x), FMul(a.y, a.y)), FMul(a.z, a.z)), FMul(a.w, a.w)))

\* every component divided by the magnitude: no check of a zero magnitude
Normalize(a) ==
    LET magnitude == Magnitude(a)
    IN  Tuple(FDiv(a.x, magnitude), FDiv(a.y, magnitude), FDiv(a.z, magnitude),
              FDiv(a.w, magnitude))

Dot(a, b) ==
    FAdd(FAdd(FAdd(FMul(a.x, b.x), FMul(a.y, b.y)), FMul(a.z, b.z)), FMul(a.w, b.w))


\* the cross product mutated: a sum in the place of the difference of z
CrossWithSum(a, b) ==
    Vector(FSub(FMul(a.y, b.z), FMul(a.z, b.y)),
           FSub(FMul(a.z, b.x), FMul(a.x, b.z)),
           FAdd(FMul(a.x, b.y), FMul(a.y, b.x)))

\* Tuple::cross
Cross(a, b) ==
    Vector(FSub(FMul(a.y, b.z), FMul(a.z, b.y)),
           FSub(FMul(a.z, b.x), FMul(a.x, b.z)),
           FSub(FMul(a.x, b.y), FMul(a.y, b.x)))

\* self - &(&(n * 2.0) * self.dot(n))
Reflect(a, n) == TupleSub(a, TupleMul(TupleMul(n, R(2)), Dot(a, n)))

(***************************************************************************)
(* Matrix (matrix.rs): height, width and the row-major vector of values.   *)
(* An operation that can panic returns [panic, m]; Panicked is the result  *)
(* of a panic (an index out of the vector's bounds, or an explicit panic!).*)
(***************************************************************************)
Matrix(h, w, vals) == [height |-> h, width |-> w, values |-> vals]

MatrixNew(h, w) == Matrix(h, w, [i \in 1..(h * w) |-> R(0)])

Panicked == [panic |-> TRUE, m |-> MatrixNew(0, 0)]

Returned(m) == [panic |-> FALSE, m |-> m]

\* Index / IndexMut: the cell (y, x) lives at values[y * width + x]
InBounds(m, y, x) == y * m.width + x < Len(m.values)

Cell(m, y, x) == m.values[y * m.width + x + 1]

SetCell(m, y, x, v) == [m EXCEPT !.values[y * m.width + x + 1] = v]

RECURSIVE IdentityFrom(_, _, _)
IdentityFrom(m, i, h) ==
    IF i = h THEN m ELSE IdentityFrom(SetCell(m, i, i, R(1)), i + 1, h)

Identity(h, w) == IdentityFrom(MatrixNew(h, w), 0, h)

\* the sum of the inner loop: sum += self[(y, i)] * rhs[(i, x)] for i in 0..n
RECURSIVE MulSum(_, _, _, _, _)
MulSum(a, b, y, x, n) ==
    IF n = 0 THEN R(0)
    ELSE FAdd(MulSum(a, b, y, x, n - 1), FMul(Cell(a, y, n - 1), Cell(b, n - 1, x)))

\* the output matrix the code allocates: rhs.height() rows, self.width columns
MulOut(a, b) == MatrixNew(b.height, a.width)

\* the two outer loops from their k-th iteration on (y = k / rhs.width, x = k % rhs.width)
RECURSIVE MulFrom(_, _, _, _)
MulFrom(a, b, out, k) ==
    IF k = a.height * b.width THEN Returned(out)
    ELSE LET y == k \div b.width
             x == k % b.width
         IN  IF \E i \in 0..(a.width - 1) : ~InBounds(a, y, i) \/ ~InBounds(b, i, x)
             THEN Panicked
             ELSE IF ~InBounds(out, y, x) THEN Panicked
             ELSE MulFrom(a, b, SetCell(out, y, x, MulSum(a, b, y, x, a.width)), k + 1)

\* impl Mul<&Matrix> for &Matrix
MatMul(a, b) == MulFrom(a, b, MulOut(a, b), 0)

\* impl Mul<&Tuple> for &Matrix (the transform of a sphere is 4x4: no panic)
MulTuple(m, t) ==
    LET out == MatMul(m, Matrix(4, 1, <<t.x, t.y, t.z, t.w>>)).m
    IN  Tuple(Cell(out, 0, 0), Cell(out, 1, 0), Cell(out, 2, 0), Cell(out, 3, 0))

\* impl Mul<f64> for &Matrix
MulScalar(m, f) ==
    Matrix(m.height, m.width, [i \in 1..Len(m.values) |-> FMul(m.values[i], f)])

RECURSIVE TransposeFrom(_, _, _)
TransposeFrom(m, out, k) ==
    IF k = m.height * m.width THEN out
    ELSE LET y == k \div m.width
             x == k % m.width
         IN  TransposeFrom(m, SetCell(out, x, y, Cell(m, y, x)), k + 1)

Transpose(m) == TransposeFrom(m, MatrixNew(m.width, m.height), 0)

\* the values whose zero-based index i in 0..n-1 has i / width # row and i % width # column
RECURSIVE SubValues(_, _, _, _)
SubValues(m, row, column, n) ==
    IF n = 0 THEN <<>>
    ELSE LET i == n - 1
             rest == SubValues(m, row, column, i)
         IN  IF i \div m.width # row /\ i % m.width # column
             THEN Append(rest, m.values[n])
             ELSE rest

\* submatrix mutated: the row and the column change places in the filter
SubmatrixSwapped(m, row, column) ==
    Matrix(m.height - 1, m.width - 1, SubValues(m, column, row, Len(m.values)))

Submatrix(m, row, column) ==
    Matrix(m.height - 1, m.width - 1, SubValues(m, row, column, Len(m.values)))

RECURSIVE Determinant(_)

\* the cofactor without its sign
CofactorUnsigned(m, row, column) == Determinant(Submatrix(m, row, column))

Cofactor(m, row, column) ==
    LET out == Determinant(Submatrix(m, row, column))
    IN  IF (row + column) % 2 = 1 THEN FMul(out, R(-1)) ELSE out

\* the loop of determinant: out += values[x] * cofactor(0, x) for x in 0..n
RECURSIVE DetSum(_, _)
DetSum(m, n) ==
    IF n = 0 THEN R(0)
    ELSE FAdd(DetSum(m, n - 1), FMul(m.values[n], Cofactor(m, 0, n - 1)))

\* Matrix::determinant of a square matrix (a non-square one panics)
Determinant(m) ==
    IF m.height = 2
    THEN FSub(FMul(m.values[1], m.values[4]), FMul(m.values[2], m.values[3]))
    ELSE DetSum(m, m.width)

IsInvertible(m) == Determinant(m) # R(0)

\* Matrix::inverse of a square matrix: no check of the determinant
Inverse(m) ==
    LET cofactor_matrix ==
            Matrix(m.height, m.width,
                   [i \in 1..(m.height * m.width) |->
                        Cofactor(m, (i - 1) \div m.width, (i - 1) % m.width)])
    IN  MulScalar(Transpose(cofactor_matrix), FRecip(Determinant(m)))

\* the test that opens determinant: height != width
NonSquareTall(m) == m.height > m.width

NonSquare(m) == m.height # m.width

\* when a call of determinant panics: the matrix is not square, or an index
\* leaves the vector of values, or the determinant of a submatrix panics
RECURSIVE DeterminantPanics(_)
DeterminantPanics(m) ==
    \/ NonSquare(m)
    \/ m.height = 2 /\ Len(m.values) < 4
    \/ /\ m.height # 2
       /\ \E x \in 0..(m.width - 1) :
              x >= Len(m.values) \/ DeterminantPanics(Submatrix(m, 0, x))

\* the outcome of a call: a panic, or the f64 returned
PanickedValue == [panic |-> TRUE, value |-> NaN]

ReturnedValue(v) == [panic |-> FALSE, value |-> v]

\* m.determinant()
DeterminantOf(m) ==
    IF DeterminantPanics(m) THEN PanickedValue ELSE ReturnedValue(Determinant(m))

\* when a call of inverse panics: in a cofactor of the loop, or in the
\* determinant of the last line
InversePanics(m) ==
    \/ \E y \in 0..(m.height - 1), x \in 0..(m.width - 1) :
           DeterminantPanics(Submatrix(m, y, x))
    \/ DeterminantPanics(m)

\* m.inverse()
InverseOf(m) == IF InversePanics(m) THEN Panicked ELSE Returned(Inverse(m))

\* impl PartialEq for Matrix: the outcomes of a == b
MatrixEq(a, b) ==
    IF a.height # b.height \/ a.width # b.width THEN {FALSE}
    ELSE LET n == IF Len(a.values) < Len(b.values) THEN Len(a.values) ELSE Len(b.values)
         IN  { e \in BOOLEAN :
                   IF e THEN \A i \in 1..n : TRUE \in ApproxEq(a.values[i], b.values[i])
                   ELSE \E i \in 1..n : FALSE \in ApproxEq(a.values[i], b.values[i]) }

(***************************************************************************)
(* Transformations (transform.rs)                                          *)
(***************************************************************************)
\* the translation mutated: the offsets stored in the bottom row
TranslationInBottomRow(x, y, z) ==
    SetCell(SetCell(SetCell(Identity(4, 4), 3, 0, x), 3, 1, y), 3, 2, z)

Translation(x, y, z) ==
    SetCell(SetCell(SetCell(Identity(4, 4), 0, 3, x), 1, 3, y), 2, 3, z)

Scaling(x, y, z) ==
    SetCell(SetCell(SetCell(SetCell(MatrixNew(4, 4), 0, 0, x), 1, 1, y), 2, 2, z),
            3, 3, R(1))

Shearing(xy, xz, yx, yz, zx, zy) ==
    SetCell(SetCell(SetCell(SetCell(SetCell(SetCell(Identity(4, 4),
        0, 1, xy), 0, 2, xz), 1, 0, yx), 1, 2, yz), 2, 0, zx), 2, 1, zy)

\* the product mutated: the transforms multiplied first to last
ComposeForward(a, b, c) ==
    LET ab == MatMul(a, b)
    IN  IF ab.panic THEN Panicked ELSE MatMul(ab.m, c)

\* let t = &c * &b * &a
Compose(a, b, c) ==
    LET cb == MatMul(c, b)
    IN  IF cb.panic THEN Panicked ELSE MatMul(cb.m, a)

(***************************************************************************)
(* Ray (ray.rs)                                                            *)
(***************************************************************************)
Ray(origin, direction) == [origin |-> origin, direction |-> direction]

RayTransform(r, matrix) ==
    Ray(MulTuple(matrix, r.origin), MulTuple(matrix, r.direction))

(***************************************************************************)
(* Color and Canvas (color.rs, canvas.rs)                                  *)
(***************************************************************************)
\* Color::new: a colour is a Tuple (red, green, blue, 0.0)
Color(red, green, blue) == Tuple(red, green, blue, R(0))

Red(c) == c.x

Green(c) == c.y

Blue(c) == c.z

ColorDefault == Color(R(0), R(0), R(0))

\* impl Add<&Color>: the sum of the tuples
ColorAdd(c, d) == TupleAdd(c, d)

\* impl Mul<f64>: the tuple times rhs
ColorScale(c, rhs) == TupleMul(c, rhs)

\* impl Mul<&Color>: the product channel by channel
ColorMul(c, d) == Color(FMul(Red(c), Red(d)), FMul(Green(c), Green(d)), FMul(Blue(c), Blue(d)))

\* the comparison mutated: the channels compared without tolerance
ColorEqExact(c, d) == {c = d}

\* impl PartialEq for Color: the outcomes of c == d
ColorEq(c, d) == TupleEq(c, d)

(***************************************************************************)
(* PointLight and Material (objects/lights.rs, objects/materials.rs)       *)
(***************************************************************************)
PointLight(position, intensity) == [position |-> position, intensity |-> intensity]

Material(c, ambient, diffuse, specular, shininess) ==
    [color |-> c, ambient |-> ambient, diffuse |-> diffuse, specular |-> specular,
     shininess |-> shininess]

MaterialDefault == Material(Color(R(1), R(1), R(1)), Norm(1, 10), Norm(9, 10), Norm(9, 10), R(200))

\* impl PartialEq for Material: the outcomes of a == b
MaterialEq(a, b) ==
    { e \in BOOLEAN :
        LET each == <<ApproxEq(a.ambient, b.ambient), ApproxEq(a.diffuse, b.diffuse),
                      ApproxEq(a.specular, b.specular), ApproxEq(a.shininess, b.shininess),
                      ColorEq(a.color, b.color)>>
        IN  IF e THEN \A i \in 1..5 : TRUE \in each[i]
            ELSE \E i \in 1..5 : FALSE \in each[i] }

\* x * x * ... * x, n factors
RECURSIVE Power(_, _)
Power(x, n) == IF n = 0 THEN R(1) ELSE FMul(Power(x, n - 1), x)

\* the exponents powf is computed for by multiplication
MaxExponent == 4

\* f64::powf for a base x > 0: 1 for the base 1, the power for an exponent that
\* is a whole number up to MaxExponent (the scenes are chosen among those)
Powf(x, y) == IF x = R(1) THEN R(1) ELSE Power(x, y[1])

PowfCovers(x, y) == x = R(1) \/ (y[2] = 1 /\ y[1] \in 0..MaxExponent)

\* the specular term mutated: the effective colour takes the place of the
\* light's intensity
SpecularOfEffective(m, light, factor) ==
    ColorScale(ColorScale(ColorMul(m.color, light.intensity), m.specular), factor)

\* light.intensity() * self.specular * factor
Specular(m, light, factor) == ColorScale(ColorScale(light.intensity, m.specular), factor)

\* the test of the outer if mutated: the light behind the surface shades too
FacesLightAlways(light_dot_normal) == ~IsNaN(light_dot_normal)

\* light_dot_normal >= 0.0
FacesLight(light_dot_normal) == FGe(light_dot_normal, R(0))

\* the direction to the light source
LightVector(light, position) == Normalize(TupleSub(light.position, position))

\* the cosine of the angle between the reflection vector and the eye vector
ReflectDotEye(lightv, eye_vec, normal_vec) ==
    Dot(Reflect(TupleNeg(lightv), normal_vec), eye_vec)

\* Material::lighting: the locals at the end of the call, and the colour returned
Lighting(m, light, position, eye_vec, normal_vec) ==
    LET effective_color == ColorMul(m.color, light.intensity)
        lightv == LightVector(light, position)
        ambient == ColorScale(effective_color, m.ambient)
        light_dot_normal == Dot(lightv, normal_vec)
        reflect_dot_eye == ReflectDotEye(lightv, eye_vec, normal_vec)
        lit == FacesLight(light_dot_normal)
        shines == lit /\ FLt(R(0), reflect_dot_eye)
        diffuse == IF lit
                   THEN ColorScale(ColorScale(effective_color, m.diffuse), light_dot_normal)
                   ELSE Color(R(0), R(0), R(0))
        specular == IF shines
                    THEN Specular(m, light, Powf(reflect_dot_eye, m.shininess))
                    ELSE Color(R(0), R(0), R(0))
    IN  [called |-> TRUE,
         light_dot_normal |-> light_dot_normal,
         reflect_dot_eye |-> IF lit THEN reflect_dot_eye ELSE NaN,
         ambient |-> ambient, diffuse |-> diffuse, specular |-> specular,
         color |-> ColorAdd(ColorAdd(ambient, diffuse), specular)]

CanvasNew(width, height) ==
    [width |-> width, height |-> height,
     pixels |-> [i \in 1..(width * height) |-> ColorDefault]]

\* write_pixel mutated: the pixels stored column by column
WritePixelByColumn(c, x, y, pixel) ==
    IF x * c.height + y < Len(c.pixels)
    THEN [panic |-> FALSE, canvas |-> [c EXCEPT !.pixels[x * c.height + y + 1] = pixel]]
    ELSE [panic |-> TRUE, canvas |-> c]

\* Canvas::pixel_at where it does not panic: pixels[y * width + x]
PixelAt(c, x, y) == c.pixels[y * c.width + x + 1]

\* Canvas::write_pixel: pixels[y * width + x] = pixel, a panic out of the bounds
\* of the vector
WritePixel(c, x, y, pixel) ==
    IF y * c.width + x < Len(c.pixels)
    THEN [panic |-> FALSE, canvas |-> [c EXCEPT !.pixels[y * c.width + x + 1] = pixel]]
    ELSE [panic |-> TRUE, canvas |-> c]

(***************************************************************************)
(* PPMExporter (exporter.rs)                                               *)
(***************************************************************************)
MAX_PPM_LINE_LENGTH == 70

\* the rounding mutated: the fraction is cut off
FTrunc(x) ==
    IF ~IsFinite(x) THEN x
    ELSE R(Sgn(x[1]) * (Abs(x[1]) \div x[2]))

\* f64::round: to the nearest integer, halves away from zero
FRound(x) ==
    IF ~IsFinite(x) THEN x
    ELSE R(Sgn(x[1]) * ((2 * Abs(x[1]) + x[2]) \div (2 * x[2])))

\* `as u8`: NaN is 0, the value saturates at 0 and 255, the fraction is cut off
AsU8(x) ==
    IF IsNaN(x) THEN 0
    ELSE IF FLt(x, R(0)) THEN 0
    ELSE IF FLt(R(255), x) THEN 255
    ELSE x[1] \div x[2]

\* (px * 255.0).round()
Scaled(px) == FRound(FMul(px, R(255)))

GetOutVal(px) ==
    IF FLe(px, R(0)) THEN 0
    ELSE IF FGe(px, R(1)) THEN 255
    ELSE AsU8(Scaled(px))

Digit(d) == <<"0", "1", "2", "3", "4", "5", "6", "7", "8", "9">>[d + 1]

\* itoa / {}: the decimal digits of n >= 0, as bytes
RECURSIVE Itoa(_)
Itoa(n) == IF n < 10 THEN <<Digit(n)>> ELSE Append(Itoa(n \div 10), Digit(n % 10))

\* format!("P3\n{} {}\n255\n", canvas.width(), canvas.height())
Header(c) ==
    <<"P", "3", "\n">> \o Itoa(c.width) \o <<" ">> \o Itoa(c.height)
        \o <<"\n", "2", "5", "5", "\n">>

\* the colors array mutated: blue first, red last
OutColorsReversed(pixel) ==
    <<GetOutVal(Blue(pixel)), GetOutVal(Green(pixel)), GetOutVal(Red(pixel))>>

\* the colors array of a pixel
OutColors(pixel) == <<GetOutVal(Red(pixel)), GetOutVal(Green(pixel)), GetOutVal(Blue(pixel))>>

\* the condition under which a sample is followed by a newline
EndsLine(length, width) ==
    \/ (length + 1) % (width * 3) = 0
    \/ length + 1 >= MAX_PPM_LINE_LENGTH

(***************************************************************************)
(* State                                                                   *)
(***************************************************************************)
VARIABLES
    spheres,   \* the Sphere objects, by name: [transform]
    self,      \* the sphere intersects was last called on ("none" before)
    ray,       \* the ray intersects was last called with
    xs,        \* the Vec<Intersection> at hand
    hit,       \* the result of from_hit on xs
    lhs,       \* the left operand of a matrix product
    rhs,       \* the right operand of a matrix product
    product,   \* the result of lhs * rhs
    point,     \* the tuple operand of a matrix-tuple product
    image,     \* the result of lhs * point
    canvas,    \* the Canvas: [width, height, pixels]
    out,       \* the bytes written to the writer so far
    current_line_length,   \* the exporter's counter
    el,        \* the exporter's position in canvas.pixels (zero-based)
    color,     \* the exporter's position in the colors of a pixel (zero-based)
    pc,        \* where the exporter stands
    det,       \* the outcome of rhs.determinant()
    inv,       \* the outcome of rhs.inverse()
    back,      \* the outcome of &product * &inv
    unit,      \* the outcome of &rhs * &inv
    normal,    \* the result of normal_at: [some, point, n]
    inverted,  \* the matrices the call at hand evaluated inverse() on
    tupleA,    \* the left operand of a tuple operation
    tupleB,    \* the right operand of a tuple operation
    factor,    \* the f64 operand of a tuple operation
    result,    \* the operation applied and the tuple it returned: [op, value]
    material,  \* the Material at hand
    other,     \* the Material it is compared to
    light,     \* the PointLight of the scene
    position,  \* the point shaded
    eye_vec,   \* the vector to the eye
    normal_vec,   \* the surface normal at position
    shading,   \* the locals and the result of material.lighting(...)
    equal,     \* the outcomes of material == other ({} before the comparison)
    start,     \* the point p the transforms are applied to
    chain,     \* the transforms a, b, c
    moved,     \* the points p2, p3, p4: p after a, then b, then c, so far
    composed,  \* the outcome of &c * &b * &a
    chained,   \* the result of &t * &p
    undone,    \* the result of &inv * &point
    write,     \* the last call of write_pixel: [called, x, y, pixel, panic]
    sub,       \* the last call of submatrix on rhs: [called, row, column, m]
    render     \* main's loops: [stage, y, x, visited, written]

vars == <<spheres, self, ray, xs, hit, lhs, rhs, product, point, image,
          canvas, out, current_line_length, el, color, pc,
          det, inv, back, unit, normal, inverted,
          tupleA, tupleB, factor, result,
          material, other, light, position, eye_vec, normal_vec, shading, equal,
          start, chain, moved, composed, chained,
          undone, write, sub, render>>

sphereVars == <<spheres, self, ray, xs, hit>>

matrixVars == <<lhs, rhs, product, point, image>>

exportVars == <<canvas, out, current_line_length, el, color, pc>>

inverseVars == <<det, inv, back, unit>>

\* the variables of the components that stand beside the scene, the products
\* and the export
normalVars == <<normal, inverted>>

\* the components other than the sphere's normal
tupleVars == <<tupleA, tupleB, factor, result>>

shadeVars == <<material, other, light, position, eye_vec, normal_vec, shading, equal>>

chainVars == <<start, chain, moved, composed, chained>>

lastVars == <<undone, write, sub, render>>

farVars == <<shadeVars, chainVars, lastVars>>

laterVars == <<inverseVars, tupleVars, farVars>>

restVars == <<normalVars, laterVars>>

(***************************************************************************)
(* Intersection (objects/intersection.rs)                                  *)
(***************************************************************************)
\* the objects of the scene, named as references: two spheres
Spheres == {"s1", "s2"}

IntersectionNew(t, object) == [t |-> t, object |-> object]

IntersectionT(i) == i.t

IntersectionObject(i) == i.object

\* Option<&Intersection>: a reference into the list (its index), or none
None == [some |-> FALSE, panic |-> FALSE, at |-> 0]

Some(at) == [some |-> TRUE, panic |-> FALSE, at |-> at]

\* Option::unwrap on the None of partial_cmp
UnwrapPanic == [some |-> FALSE, panic |-> TRUE, at |-> 0]

\* the filter mutated: t > 0.0
HitFilterStrict(i) == FLt(R(0), IntersectionT(i))

\* .filter(|i| i.t() >= 0.0)
HitFilter(i) == FGe(IntersectionT(i), R(0))

\* the indices, in order, of the elements of list[1..n] that pass the filter
RECURSIVE Filtered(_, _)
Filtered(list, n) ==
    IF n = 0 THEN <<>>
    ELSE IF HitFilter(list[n]) THEN Append(Filtered(list, n - 1), n)
    ELSE Filtered(list, n - 1)

\* a.t().partial_cmp(&b.t()): none when either is NaN
PartialCmp(a, b) ==
    IF IsNaN(a) \/ IsNaN(b) THEN "none"
    ELSE IF FLt(a, b) THEN "less"
    ELSE IF FLt(b, a) THEN "greater"
    ELSE "equal"

\* Iterator::min_by over idx[k..], best so far at index best: the first of
\* several equal minima is kept
RECURSIVE MinBy(_, _, _, _)
MinBy(list, idx, k, best) ==
    IF k > Len(idx) THEN Some(best)
    ELSE LET c == PartialCmp(IntersectionT(list[best]), IntersectionT(list[idx[k]]))
         IN  IF c = "none" THEN UnwrapPanic
             ELSE IF c = "greater" THEN MinBy(list, idx, k + 1, idx[k])
             ELSE MinBy(list, idx, k + 1, best)

\* Intersection::from_hit
FromHit(list) ==
    LET idx == Filtered(list, Len(list))
    IN  IF idx = <<>> THEN None ELSE MinBy(list, idx, 2, idx[1])

(***************************************************************************)
(* Sphere (objects/sphere.rs)                                              *)
(***************************************************************************)
SphereDefault == [transform |-> Identity(4, 4)]

\* the ray mutated: moved by the transform instead of its inverse
ObjectRayForward(transform, r) == RayTransform(r, transform)

\* let ray = ray.transform(&self.transform.inverse())
ObjectRay(transform, r) == RayTransform(r, Inverse(transform))

\* the coefficients and the discriminant of the quadratic, of an object-space ray
Quadratic(r) ==
    LET sphere_to_ray == TupleSub(r.origin, Point(R(0), R(0), R(0)))
        a == Dot(r.direction, r.direction)
        b == FMul(R(2), Dot(r.direction, sphere_to_ray))
        c == FSub(Dot(sphere_to_ray, sphere_to_ray), R(1))
    IN  [a |-> a, b |-> b, c |-> c,
         discriminant |-> FSub(FMul(b, b), FMul(FMul(R(4), a), c))]

\* the owner mutated: some sphere of the scene, not the one called
OwnerFirst(object) == "s1"

\* the object the intersections of `object` refer to: self
Owner(object) == object

\* the result mutated: the larger root first
RootsSwapped(q, object) ==
    IF FLt(q.discriminant, R(0)) THEN <<>>
    ELSE LET t1 == FDiv(FSub(FNeg(q.b), FSqrt(q.discriminant)), FMul(R(2), q.a))
             t2 == FDiv(FAdd(FNeg(q.b), FSqrt(q.discriminant)), FMul(R(2), q.a))
         IN  <<IntersectionNew(t2, Owner(object)), IntersectionNew(t1, Owner(object))>>

\* the result of intersects from the quadratic on
Roots(q, object) ==
    IF FLt(q.discriminant, R(0)) THEN <<>>
    ELSE LET t1 == FDiv(FSub(FNeg(q.b), FSqrt(q.discriminant)), FMul(R(2), q.a))
             t2 == FDiv(FAdd(FNeg(q.b), FSqrt(q.discriminant)), FMul(R(2), q.a))
         IN  <<IntersectionNew(t1, Owner(object)), IntersectionNew(t2, Owner(object))>>

\* Sphere::intersects of the sphere named object, whose state is s
SphereIntersects(object, s, r) == Roots(Quadratic(ObjectRay(s.transform, r)), object)

\* the world_normal of normal_at before it is normalized, w set to 0
WorldNormal(s, world_point) ==
    LET object_point == MulTuple(Inverse(s.transform), world_point)
        object_normal == TupleSub(object_point, Point(R(0), R(0), R(0)))
        world_normal == MulTuple(Transpose(Inverse(s.transform)), object_normal)
    IN  Vector(world_normal.x, world_normal.y, world_normal.z)

\* normal_at mutated: the world normal returned as it is
SphereNormalAtRaw(s, world_point) == WorldNormal(s, world_point)

\* Sphere::normal_at of a sphere whose state is s
SphereNormalAt(s, world_point) == Normalize(WorldNormal(s, world_point))

\* the matrices a call evaluates inverse() on, in order
IntersectsInverts(s) == <<s.transform>>

NormalAtInverts(s) == <<s.transform, s.transform>>

(***************************************************************************)
(* Inputs                                                                  *)
(***************************************************************************)
\* the t of a hand-made intersection: -MaxT..MaxT and NaN
HitTs == {R(n) : n \in (0 - MaxT)..MaxT} \cup {NaN}

\* the transforms given to set_transform: the tests' scaling and translation,
\* a shear, a non-uniform scaling and a singular scaling
Transforms ==
    { Identity(4, 4), Scaling(R(2), R(2), R(2)), Translation(R(5), R(0), R(0)),
      Shearing(R(0), R(0), R(0), R(1), R(0), R(0)), Scaling(R(1), R(0), R(1)) }

\* the rays: origins (0, y, z) before, in and behind the sphere; directions
\* (0, dy, dz), the zero vector among them
Rays ==
    { Ray(Point(R(0), R(y), R(z)), Vector(R(0), R(dy), R(dz))) :
        y \in 0..MaxCoord, z \in {-5, 0, 5}, dy \in {0, 1}, dz \in 0..MaxCoord }

\* the world points given to normal_at: on the axes, and off them
WorldPoints ==
    { Point(R(1), R(0), R(0)), Point(R(0), R(1), R(0)), Point(R(0), R(0), R(1)),
      Point(R(0), R(3), R(4)), Point(R(0), R(0), R(0)), Point(R(5), R(0), R(0)) }

NoRay == Ray(Point(R(0), R(0), R(0)), Vector(R(0), R(0), R(0)))

\* from_hit not called on the list at hand
NotCalled == [some |-> FALSE, panic |-> FALSE, at |-> -1]

NoMatrix == MatrixNew(0, 0)

NoCanvas == [width |-> 0, height |-> 0, pixels |-> <<>>]

\* the variables of the components a specification leaves alone
SceneIdle ==
    /\ spheres = [o \in Spheres |-> SphereDefault]
    /\ self = "none"
    /\ ray = NoRay
    /\ xs = <<>>
    /\ hit = NotCalled

\* no product computed yet
NoProduct == Returned(NoMatrix)

NoTuple == Tuple(R(0), R(0), R(0), R(0))

NoImage == [some |-> FALSE, tuple |-> NoTuple]

MatrixIdle ==
    /\ lhs = NoMatrix
    /\ rhs = NoMatrix
    /\ product = NoProduct
    /\ point = NoTuple
    /\ image = NoImage

\* no determinant, no inverse computed yet
NoValue == ReturnedValue(NaN)

InverseIdle ==
    /\ det = NoValue
    /\ inv = NoProduct
    /\ back = NoProduct
    /\ unit = NoProduct

\* normal_at not called
NoNormal == [some |-> FALSE, point |-> NoTuple, n |-> NoTuple]

NormalIdle ==
    /\ normal = NoNormal
    /\ inverted = <<>>

\* no tuple operation applied
NoResult == [op |-> "none", value |-> NoTuple]

TupleIdle ==
    /\ tupleA = NoTuple
    /\ tupleB = NoTuple
    /\ factor = R(0)
    /\ result = NoResult

\* lighting not called
NoShading ==
    [called |-> FALSE, light_dot_normal |-> NaN, reflect_dot_eye |-> NaN,
     ambient |-> ColorDefault, diffuse |-> ColorDefault, specular |-> ColorDefault,
     color |-> ColorDefault]

ShadeIdle ==
    /\ material = MaterialDefault
    /\ other = MaterialDefault
    /\ light = PointLight(NoTuple, ColorDefault)
    /\ position = NoTuple
    /\ eye_vec = NoTuple
    /\ normal_vec = NoTuple
    /\ shading = NoShading
    /\ equal = {}

ChainIdle ==
    /\ start = NoTuple
    /\ chain = <<>>
    /\ moved = <<>>
    /\ composed = NoProduct
    /\ chained = NoImage

\* write_pixel not called
NoWrite == [called |-> FALSE, x |-> 0, y |-> 0, pixel |-> ColorDefault, panic |-> FALSE]

\* submatrix not called
NoSub == [called |-> FALSE, row |-> 0, column |-> 0, m |-> NoMatrix]

\* main not running
NoRender == [stage |-> "none", y |-> 0, x |-> 0, visited |-> <<>>, written |-> <<>>]

LastIdle ==
    /\ undone = NoImage
    /\ write = NoWrite
    /\ sub = NoSub
    /\ render = NoRender

FarIdle == ShadeIdle /\ ChainIdle /\ LastIdle

RestIdle == InverseIdle /\ NormalIdle /\ TupleIdle /\ FarIdle

ExportIdle ==
    /\ canvas = NoCanvas
    /\ out = <<>>
    /\ current_line_length = 0
    /\ el = 0
    /\ color = 0
    /\ pc = "idle"

(***************************************************************************)
(* Hit selection over hand-made lists (the tests of intersection.rs)       *)
(***************************************************************************)
\* vec![.., Intersection::new(t, &s)]: one more element of the list
Push(t, object) ==
    /\ self = "none"
    /\ Len(xs) < MaxHits
    /\ xs' = Append(xs, IntersectionNew(t, object))
    /\ hit' = NotCalled
    /\ UNCHANGED <<spheres, self, ray, matrixVars, exportVars, restVars>>

\* let i = Intersection::from_hit(&intersections)
CallFromHit ==
    /\ hit = NotCalled
    /\ hit' = FromHit(xs)
    /\ UNCHANGED <<spheres, self, ray, xs, matrixVars, exportVars, restVars>>

InitHit == SceneIdle /\ MatrixIdle /\ ExportIdle /\ RestIdle

NextHit ==
    \/ \E t \in HitTs, object \in Spheres : Push(t, object)
    \/ CallFromHit

SpecHit == InitHit /\ [][NextHit]_vars

(***************************************************************************)
(* The sphere: set_transform and intersects                                *)
(***************************************************************************)
\* set_transform mutated: the transform of every sphere is set
SetTransformOfAll(object, m) ==
    /\ self = "none"
    /\ spheres' = [o \in Spheres |-> [transform |-> m]]
    /\ UNCHANGED <<self, ray, xs, hit, matrixVars, exportVars, restVars>>

\* s.set_transform(m): a &mut borrow, so no intersection of s is alive
SetTransform(object, m) ==
    /\ self = "none"
    /\ spheres' = [spheres EXCEPT ![object].transform = m]
    /\ UNCHANGED <<self, ray, xs, hit, matrixVars, exportVars, restVars>>

\* let xs = s.intersects(&r)
Intersects(object, r) ==
    /\ self = "none"
    /\ self' = object
    /\ ray' = r
    /\ xs' = SphereIntersects(object, spheres[object], r)
    /\ hit' = NotCalled
    /\ inverted' = IntersectsInverts(spheres[object])
    /\ UNCHANGED <<spheres, normal, matrixVars, exportVars, laterVars>>

\* let n = s.normal_at(&p)
NormalAt(object, p) ==
    /\ self = "none"
    /\ self' = object
    /\ normal' = [some |-> TRUE, point |-> p, n |-> SphereNormalAt(spheres[object], p)]
    /\ inverted' = NormalAtInverts(spheres[object])
    /\ UNCHANGED <<spheres, ray, xs, hit, matrixVars, exportVars, laterVars>>

\* xs and the hit go out of scope: the borrow of the sphere ends
Release ==
    /\ self # "none"
    /\ self' = "none"
    /\ ray' = NoRay
    /\ xs' = <<>>
    /\ hit' = NotCalled
    /\ normal' = NoNormal
    /\ inverted' = <<>>
    /\ UNCHANGED <<spheres, matrixVars, exportVars, laterVars>>

InitSphere == SceneIdle /\ MatrixIdle /\ ExportIdle /\ RestIdle

NextSphere ==
    \/ \E object \in Spheres, m \in Transforms : SetTransform(object, m)
    \/ \E object \in Spheres, r \in Rays : Intersects(object, r)
    \/ \E object \in Spheres, p \in WorldPoints : NormalAt(object, p)
    \/ Release

SpecSphere == InitSphere /\ [][NextSphere]_vars

(***************************************************************************)
(* Matrix products (the tests of matrix.rs, and operands of other shapes)  *)
(***************************************************************************)
\* an h x w matrix of small integers, cell k (row-major) holding ((k * seed) % 5) - 2
Patterned(h, w, seed) == Matrix(h, w, [k \in 1..(h * w) |-> R(((k * seed) % 5) - 2)])

\* the operands of tests::mul_multiplies_matrices
TestA ==
    Matrix(4, 4, << R(1), R(2), R(3), R(4),  R(5), R(6), R(7), R(8),
                    R(9), R(8), R(7), R(6),  R(5), R(4), R(3), R(2) >>)

TestB ==
    Matrix(4, 4, << R(-2), R(1), R(2), R(3),  R(3), R(2), R(1), R(-1),
                    R(4), R(3), R(6), R(5),   R(1), R(2), R(7), R(8) >>)

MatrixInputs ==
    {Patterned(h, w, seed) : h \in 1..MaxDim, w \in 1..MaxDim, seed \in {1, 2}}
        \cup {TestA, TestB}

TupleInputs == {Tuple(R(1), R(2), R(3), R(1)), Tuple(R(-1), R(0), R(2), R(0))}

\* let c = &a * &b
Multiply ==
    /\ product = NoProduct
    /\ product' = MatMul(lhs, rhs)
    /\ UNCHANGED <<lhs, rhs, point, image, sphereVars, exportVars, restVars>>

\* let c = &a * &t, a a 4x4 matrix
MultiplyTuple ==
    /\ image = NoImage
    /\ lhs.height = 4
    /\ lhs.width = 4
    /\ image' = [some |-> TRUE, tuple |-> MulTuple(lhs, point)]
    /\ UNCHANGED <<lhs, rhs, product, point, sphereVars, exportVars, restVars>>

InitMatrix ==
    /\ SceneIdle
    /\ ExportIdle
    /\ RestIdle
    /\ lhs \in MatrixInputs
    /\ rhs \in MatrixInputs
    /\ point \in TupleInputs
    /\ product = NoProduct
    /\ image = NoImage

NextMatrix == Multiply \/ MultiplyTuple

SpecMatrix == InitMatrix /\ [][NextMatrix]_vars

(***************************************************************************)
(* Determinant, inverse and the products with an inverse (the tests of     *)
(* matrix.rs, and matrices of other shapes)                                *)
(***************************************************************************)
\* the matrix of tests::determinant_3x3_matrix_calculates_determinant
Det3 == Matrix(3, 3, << R(1), R(2), R(6),  R(-5), R(8), R(-4),  R(2), R(6), R(4) >>)

\* the matrix of tests::determinant_4x4_matrix_calculates_determinant
Det4 ==
    Matrix(4, 4, << R(-2), R(-8), R(3), R(5),  R(-3), R(1), R(7), R(3),
                    R(1), R(2), R(-9), R(6),   R(-6), R(7), R(7), R(-9) >>)

\* the matrix of tests::is_invertible_returns_false_for_non_invertible_matrix
Singular4 ==
    Matrix(4, 4, << R(-4), R(2), R(-2), R(-3),  R(9), R(6), R(2), R(6),
                    R(0), R(-5), R(1), R(-5),   R(0), R(0), R(0), R(0) >>)

\* the matrix of tests::inverse_calculates_inverse
InverseA ==
    Matrix(4, 4, << R(-5), R(2), R(6), R(-8),  R(1), R(-5), R(1), R(8),
                    R(7), R(7), R(-6), R(-7),  R(1), R(-3), R(7), R(4) >>)

\* the matrices of tests::mul_matrix_by_inverse_returns_identity_matrix
RoundTripA ==
    Matrix(4, 4, << R(3), R(-9), R(7), R(3),  R(3), R(-8), R(2), R(-9),
                    R(-4), R(4), R(4), R(1),  R(-6), R(5), R(-1), R(1) >>)

RoundTripB ==
    Matrix(4, 4, << R(8), R(2), R(2), R(2),  R(3), R(-1), R(7), R(0),
                    R(7), R(0), R(5), R(4),  R(6), R(-2), R(0), R(5) >>)

\* the square matrices: of the sizes 1..MaxDim, some of them singular, and the
\* 4x4 matrices of the tests
SquareInputs ==
    {Patterned(n, n, seed) : n \in 1..MaxDim, seed \in {1, 2, 5}}
        \cup {Matrix(2, 2, <<R(1), R(5), R(-3), R(2)>>), Det3, Det4, Singular4,
              InverseA, RoundTripA, RoundTripB}

\* the matrices that are not square, empty ones among them
NonSquareInputs == {Patterned(h, w, 1) : h \in 0..MaxDim, w \in 0..MaxDim} \ SquareInputs

\* let d = b.determinant()
CallDeterminant ==
    /\ det = NoValue
    /\ det' = DeterminantOf(rhs)
    /\ UNCHANGED <<inv, back, unit, matrixVars, sphereVars, exportVars, normalVars, tupleVars,
                 farVars>>

\* let i = b.inverse()
CallInverse ==
    /\ inv = NoProduct
    /\ inv' = InverseOf(rhs)
    /\ UNCHANGED <<det, back, unit, matrixVars, sphereVars, exportVars, normalVars, tupleVars,
                 farVars>>

\* &c * &i, c the product a * b and i the inverse of b
MultiplyBack ==
    /\ back = NoProduct
    /\ product # NoProduct
    /\ ~product.panic
    /\ inv # NoProduct
    /\ ~inv.panic
    /\ back' = MatMul(product.m, inv.m)
    /\ UNCHANGED <<det, inv, unit, matrixVars, sphereVars, exportVars, normalVars, tupleVars,
                 farVars>>

\* &b * &i, i the inverse of b
MultiplyUnit ==
    /\ unit = NoProduct
    /\ inv # NoProduct
    /\ ~inv.panic
    /\ unit' = MatMul(rhs, inv.m)
    /\ UNCHANGED <<det, inv, back, matrixVars, sphereVars, exportVars, normalVars, tupleVars,
                 farVars>>

InitInverse ==
    /\ SceneIdle
    /\ ExportIdle
    /\ InverseIdle
    /\ NormalIdle
    /\ TupleIdle
    /\ FarIdle
    /\ rhs \in SquareInputs \cup NonSquareInputs
    /\ lhs \in IF rhs \in SquareInputs
               THEN {m \in SquareInputs : m.height = rhs.height}
               ELSE {Identity(rhs.height, rhs.height)}
    /\ product = NoProduct
    /\ point = NoTuple
    /\ image = NoImage

NextInverse ==
    \/ CallDeterminant
    \/ CallInverse
    \/ Multiply
    \/ MultiplyBack
    \/ MultiplyUnit

SpecInverse == InitInverse /\ [][NextInverse]_vars

(***************************************************************************)
(* Tuple arithmetic (the tests of tuple.rs)                                *)
(***************************************************************************)
\* the tuples: points and vectors of small coordinates, a vector with an
\* infinite coordinate
TupleOperands ==
    { Tuple(R(x), R(y), Norm(3, 2), R(w)) :
        x \in {-1, 0, 2}, y \in {0, 1}, w \in {0, 1} }
        \cup { Vector(Inf, R(0), R(1)), Vector(R(1), R(2), R(3)), Vector(R(2), R(3), R(4)) }

Factors == { R(0), R(2), Norm(-1, 2) }

\* let c = &a + &b
Add ==
    /\ result = NoResult
    /\ result' = [op |-> "add", value |-> TupleAdd(tupleA, tupleB)]
    /\ UNCHANGED <<tupleA, tupleB, factor, sphereVars, matrixVars, exportVars,
                   inverseVars, normalVars, farVars>>

\* let c = &a - &b
Subtract ==
    /\ result = NoResult
    /\ result' = [op |-> "sub", value |-> TupleSub(tupleA, tupleB)]
    /\ UNCHANGED <<tupleA, tupleB, factor, sphereVars, matrixVars, exportVars,
                   inverseVars, normalVars, farVars>>

\* let c = -&a
Negate ==
    /\ result = NoResult
    /\ result' = [op |-> "neg", value |-> TupleNeg(tupleA)]
    /\ UNCHANGED <<tupleA, tupleB, factor, sphereVars, matrixVars, exportVars,
                   inverseVars, normalVars, farVars>>

\* let c = a.cross(&b)
CrossProduct ==
    /\ result = NoResult
    /\ result' = [op |-> "cross", value |-> Cross(tupleA, tupleB)]
    /\ UNCHANGED <<tupleA, tupleB, factor, sphereVars, matrixVars, exportVars,
                   inverseVars, normalVars, farVars>>

\* let c = &a * f
Scale ==
    /\ result = NoResult
    /\ result' = [op |-> "mul", value |-> TupleMul(tupleA, factor)]
    /\ UNCHANGED <<tupleA, tupleB, factor, sphereVars, matrixVars, exportVars,
                   inverseVars, normalVars, farVars>>

\* let c = &a / f
Divide ==
    /\ result = NoResult
    /\ result' = [op |-> "div", value |-> TupleDiv(tupleA, factor)]
    /\ UNCHANGED <<tupleA, tupleB, factor, sphereVars, matrixVars, exportVars,
                   inverseVars, normalVars, farVars>>

\* let c = (&a + &b) - &b
AddThenSubtract ==
    /\ result = NoResult
    /\ result' = [op |-> "add-sub", value |-> TupleSub(TupleAdd(tupleA, tupleB), tupleB)]
    /\ UNCHANGED <<tupleA, tupleB, factor, sphereVars, matrixVars, exportVars,
                   inverseVars, normalVars, farVars>>

InitTuple ==
    /\ SceneIdle
    /\ MatrixIdle
    /\ ExportIdle
    /\ InverseIdle
    /\ NormalIdle
    /\ FarIdle
    /\ tupleA \in TupleOperands
    /\ tupleB \in TupleOperands
    /\ factor \in Factors
    /\ result = NoResult

NextTuple ==
    Add \/ Subtract \/ Negate \/ Scale \/ Divide \/ AddThenSubtract \/ CrossProduct

SpecTuple == InitTuple /\ [][NextTuple]_vars

(***************************************************************************)
(* The shading of a point (Material::lighting)                             *)
(***************************************************************************)
\* the materials shaded: the default one, and two of small shininess whose
\* colour and coefficients differ from channel to channel
Materials ==
    {MaterialDefault,
     Material(Color(R(1), Norm(1, 2), Norm(1, 4)), Norm(1, 4), Norm(1, 2), Norm(3, 4), R(2)),
     Material(Color(R(1), R(1), R(1)), Norm(1, 10), Norm(9, 10), Norm(9, 10), R(1))}

\* the lights: in front of the surface head-on and at an angle, grazing it,
\* behind it, and at the point shaded; white and coloured
LightPositions ==
    {Point(R(0), R(0), R(-10)), Point(R(0), R(6), R(-8)), Point(R(0), R(10), R(0)),
     Point(R(0), R(0), R(10)), Point(R(0), R(6), R(8)), Point(R(0), R(0), R(0))}

Intensities == {Color(R(1), R(1), R(1)), Color(Norm(1, 2), R(1), R(2))}

\* the eye: in front of the surface, in and against the path of the
\* reflection, and behind the surface
EyeVectors ==
    {Vector(R(0), R(0), R(-1)), Vector(R(0), Norm(-3, 5), Norm(-4, 5)),
     Vector(R(0), Norm(3, 5), Norm(-4, 5)), Vector(R(0), R(0), R(1)),
     Vector(R(0), R(1), R(0))}

\* the scenes whose specular factor Powf computes
PowfCoversScene(m, l, p, e, n) ==
    LET reflect_dot_eye == ReflectDotEye(LightVector(l, p), e, n)
    IN  FLt(R(0), reflect_dot_eye) => PowfCovers(reflect_dot_eye, m.shininess)

\* let result = m.lighting(&light, &position, &eyev, &normalv)
Shade ==
    /\ ~shading.called
    /\ shading' = Lighting(material, light, position, eye_vec, normal_vec)
    /\ UNCHANGED <<material, other, light, position, eye_vec, normal_vec, equal,
                   sphereVars, matrixVars, exportVars, inverseVars, normalVars,
                   tupleVars, chainVars, lastVars>>

InitLighting ==
    /\ SceneIdle
    /\ MatrixIdle
    /\ ExportIdle
    /\ InverseIdle
    /\ NormalIdle
    /\ TupleIdle
    /\ LastIdle
    /\ ChainIdle
    /\ material \in Materials
    /\ other = MaterialDefault
    /\ light \in {PointLight(p, i) : p \in LightPositions, i \in Intensities}
    /\ position = Point(R(0), R(0), R(0))
    /\ eye_vec \in EyeVectors
    /\ normal_vec = Vector(R(0), R(0), R(-1))
    /\ PowfCoversScene(material, light, position, eye_vec, normal_vec)
    /\ shading = NoShading
    /\ equal = {}

NextLighting == Shade

SpecLighting == InitLighting /\ [][NextLighting]_vars

(***************************************************************************)
(* The export of a painted canvas                                          *)
(***************************************************************************)
\* the widths and heights of the canvases exported: empty ones, the 5 of the
\* tests, and rows of about MAX_PPM_LINE_LENGTH samples
Widths == {0, 1, 5, 12} \cup 23..MaxWidth

Heights == 0..MaxHeight

\* the colour the pattern paints on pixel k (row-major, zero-based) of n pixels
PatternColor(pattern, k, w, h) ==
    CASE pattern = "white" -> Color(R(1), R(1), R(1))
      [] pattern = "test" ->
            IF k = 0 THEN Color(Norm(3, 2), R(0), R(0))
            ELSE IF k = (h \div 2) * w + (w \div 2) THEN Color(R(0), Norm(1, 2), R(0))
            ELSE IF k = w * h - 1 THEN Color(Norm(-1, 2), R(0), R(1))
            ELSE ColorDefault
      [] pattern = "ramp" ->
            Color(Norm(k - 1, 4), Norm(2 * k + 1, 256),
                  CASE k % 4 = 0 -> NaN
                    [] k % 4 = 1 -> Inf
                    [] k % 4 = 2 -> NegInf
                    [] OTHER -> Norm(k, 512))
      [] OTHER -> ColorDefault

\* Canvas::new(w, h), then write_pixel(k % w, k / w, colour) for every pixel k the
\* pattern paints
Painted(w, h, pattern) ==
    IF pattern = "black" THEN CanvasNew(w, h)
    ELSE [CanvasNew(w, h) EXCEPT
              !.pixels = [i \in 1..(w * h) |-> PatternColor(pattern, i - 1, w, h)]]

\* exporter.export(&canvas, &mut buffer): the header
ExportHeader ==
    /\ pc = "idle"
    /\ out' = out \o Header(canvas)
    /\ current_line_length' = 0
    /\ el' = 0
    /\ color' = 0
    /\ pc' = "pixels"
    /\ UNCHANGED <<canvas, sphereVars, matrixVars, restVars>>

\* one turn of the inner loop: a sample and its separator
ExportSample ==
    /\ pc = "pixels"
    /\ el < Len(canvas.pixels)
    /\ LET sample == Itoa(OutColors(canvas.pixels[el + 1])[color + 1])
       IN  \/ /\ EndsLine(current_line_length, canvas.width)
              /\ out' = out \o sample \o <<"\n">>
              /\ current_line_length' = 0
           \/ /\ ~EndsLine(current_line_length, canvas.width)
              /\ out' = out \o sample \o <<" ">>
              /\ current_line_length' = current_line_length + 1
    /\ color' = (color + 1) % 3
    /\ el' = IF color = 2 THEN el + 1 ELSE el
    /\ UNCHANGED <<canvas, pc, sphereVars, matrixVars, restVars>>

\* the loop over the pixels is over: Ok(())
ExportReturn ==
    /\ pc = "pixels"
    /\ el = Len(canvas.pixels)
    /\ pc' = "done"
    /\ UNCHANGED <<canvas, out, current_line_length, el, color, sphereVars, matrixVars, restVars>>

InitPPM ==
    /\ SceneIdle
    /\ MatrixIdle
    /\ RestIdle
    /\ \E w \in Widths, h \in Heights, pattern \in {"black", "white", "test", "ramp"} :
           canvas = Painted(w, h, pattern)
    /\ out = <<>>
    /\ current_line_length = 0
    /\ el = 0
    /\ color = 0
    /\ pc = "idle"

NextPPM == ExportHeader \/ ExportSample \/ ExportReturn

SpecPPM == InitPPM /\ [][NextPPM]_vars

(***************************************************************************)
(* Properties of hit selection and of the sphere                           *)
(***************************************************************************)
\* the t of a from_hit result on list, or none
HitT(h, list) ==
    IF h.some THEN [some |-> TRUE, t |-> IntersectionT(list[h.at])]
    ELSE [some |-> FALSE, t |-> R(0)]

\* list with its elements i and j exchanged
Swapped(list, i, j) ==
    [k \in 1..Len(list) |-> IF k = i THEN list[j] ELSE IF k = j THEN list[i] ELSE list[k]]

\* C1: from_hit returns the intersection with the smallest t among those with
\* t >= 0 (t = 0 included), none when the list is empty or no t is >= 0, never
\* panics, and exchanging two elements of the list does not change the t returned.
C1_FromHitLowestNonNegative ==
    hit # NotCalled =>
        LET forward == {i \in 1..Len(xs) : FGe(xs[i].t, R(0))}
        IN  /\ ~hit.panic
            /\ hit.some <=> forward # {}
            /\ hit.some =>
                /\ hit.at \in forward
                /\ \A i \in forward : FLe(xs[hit.at].t, xs[i].t)
            /\ \A i, j \in 1..Len(xs) :
                   HitT(FromHit(Swapped(xs, i, j)), Swapped(xs, i, j)) = HitT(hit, xs)

\* C1 witness: the hit is the last of three, at t = 0, behind a negative and a
\* positive t
C1_Witness ==
    /\ hit.some
    /\ Len(xs) = 3
    /\ hit.at = 3
    /\ xs[3].t = R(0)
    /\ FLt(xs[1].t, R(0))
    /\ FLt(R(0), xs[2].t)

TupleFinite(t) == IsFinite(t.x) /\ IsFinite(t.y) /\ IsFinite(t.z) /\ IsFinite(t.w)

\* the result of intersects: a miss, or the two roots t1, t2 in that order
RootsOf(q, list) ==
    /\ FLt(q.discriminant, R(0)) => list = <<>>
    /\ ~FLt(q.discriminant, R(0)) =>
        LET root == FSqrt(q.discriminant)
        IN  /\ Len(list) = 2
            /\ list[1].t = FDiv(FSub(FNeg(q.b), root), FMul(R(2), q.a))
            /\ list[2].t = FDiv(FAdd(FNeg(q.b), root), FMul(R(2), q.a))

\* t solves a t^2 + b t + c = 0
IsRoot(q, t) == FEq(FAdd(FAdd(FMul(q.a, FMul(t, t)), FMul(q.b, t)), q.c), R(0))

\* intersects is the call at hand
Intersected == self # "none" /\ ~normal.some

\* C2 as stated: a miss when the discriminant is negative, otherwise exactly the
\* two roots t1, t2 in that order, with t1 <= t2 (looked at for the spheres whose
\* transform is invertible)
C2_AsStated ==
    (Intersected /\ IsInvertible(spheres[self].transform)) =>
        LET r == RayTransform(ray, Inverse(spheres[self].transform))
            q == Quadratic(r)
        IN  /\ RootsOf(q, xs)
            /\ Len(xs) \in {0, 2}
            /\ Len(xs) = 2 => FLe(xs[1].t, xs[2].t)

\* C2 amended: the same, with t1 <= t2 for a ray that is finite and has a
\* non-zero direction in object space (otherwise the two t are NaN or infinite);
\* for such a ray t1 and t2 are finite, equal exactly when the discriminant is 0,
\* and, where the square root is exact, both solve the quadratic
C2_TwoRootsInOrder ==
    Intersected =>
        LET r == RayTransform(ray, Inverse(spheres[self].transform))
            q == Quadratic(r)
            root == FSqrt(q.discriminant)
        IN  /\ RootsOf(q, xs)
            /\ Len(xs) \in {0, 2}
            /\ ( /\ Len(xs) = 2
                 /\ TupleFinite(r.origin)
                 /\ TupleFinite(r.direction)
                 /\ FLt(R(0), q.a) )
               => /\ FLe(xs[1].t, xs[2].t)
                  /\ IsFinite(xs[1].t)
                  /\ IsFinite(xs[2].t)
                  /\ xs[1].t = xs[2].t <=> q.discriminant = R(0)
                  /\ FMul(root, root) = q.discriminant =>
                         IsRoot(q, xs[1].t) /\ IsRoot(q, xs[2].t)

\* C2 witness: a tangent ray, t1 = t2 = 5
C2_Witness ==
    /\ Intersected
    /\ Len(xs) = 2
    /\ xs[1].t = R(5)
    /\ xs[2].t = R(5)

TestRay == Ray(Point(R(0), R(0), R(-5)), Vector(R(0), R(0), R(1)))

Ts(list) == [i \in 1..Len(list) |-> IntersectionT(list[i])]

\* C3: for an invertible transform M the t values are those of the default unit
\* sphere and the ray (inverse(M) * origin, inverse(M) * direction); scaling by 2
\* turns [4, 6] into [3, 7] and translation(5, 0, 0) into a miss.
C3_RayMovedToObjectSpace ==
    Intersected =>
        LET M == spheres[self].transform
            inverse == Inverse(M)
        IN  \* M is invertible: no cell of its inverse is NaN or infinite
            (\A i \in 1..16 : IsFinite(inverse.values[i])) =>
            /\ IsInvertible(M)
            /\ Ts(xs) = Ts(SphereIntersects("s1", SphereDefault,
                                            RayTransform(ray, inverse)))
            /\ (ray = TestRay /\ M = Identity(4, 4)) => Ts(xs) = <<R(4), R(6)>>
            /\ (ray = TestRay /\ M = Scaling(R(2), R(2), R(2))) => Ts(xs) = <<R(3), R(7)>>
            /\ (ray = TestRay /\ M = Translation(R(5), R(0), R(0))) => xs = <<>>

\* C3 witness: the scaled sphere hit at 3 and 7
C3_Witness ==
    /\ Intersected
    /\ spheres[self].transform = Scaling(R(2), R(2), R(2))
    /\ ray = TestRay
    /\ Ts(xs) = <<R(3), R(7)>>

\* C4: every intersection returned by intersects refers to the sphere it was
\* called on, and Intersection::new(t, o) holds exactly t and o.
C4_IntersectionsReferToSelf ==
    /\ Intersected => \A i \in 1..Len(xs) : IntersectionObject(xs[i]) = self
    /\ \A t \in HitTs, o \in Spheres :
           /\ IntersectionT(IntersectionNew(t, o)) = t
           /\ IntersectionObject(IntersectionNew(t, o)) = o

\* C4 witness: two intersections of s2 while s1 has the very same transform
C4_Witness ==
    /\ self = "s2"
    /\ Len(xs) = 2
    /\ spheres["s1"].transform = spheres["s2"].transform

\* C14 as stated: intersects and normal_at evaluate inverse only on a transform
\* that is invertible (its determinant is not 0), whatever set_transform was
\* given.
C14_InverseOnlyOfInvertible ==
    \A i \in 1..Len(inverted) : IsInvertible(inverted[i])

\* what the code does for a transform that is invertible: finite results
InvertibleGivesNumbers ==
    (self # "none" /\ IsInvertible(spheres[self].transform)) =>
        /\ Intersected => \A i \in 1..Len(xs) : ~IsNaN(xs[i].t)
               \/ ~FLt(R(0), Dot(ray.direction, ray.direction))
        /\ (normal.some /\ normal.point # Point(R(0), R(0), R(0))) =>
               TupleFinite(normal.n)

(***************************************************************************)
(* Properties of the matrix product                                        *)
(***************************************************************************)
\* the mathematical product: the sum over i in 0..n-1 of a[r, i] * b[i, c], the
\* cells taken by row and column from well-formed operands
RECURSIVE RowByColumn(_, _, _, _, _)
RowByColumn(a, b, r, c, n) ==
    IF n = 0 THEN R(0)
    ELSE FAdd(RowByColumn(a, b, r, c, n - 1),
              FMul(a.values[r * a.width + n], b.values[(n - 1) * b.width + c + 1]))

\* m is the h x w matrix whose cell (r, c) is f(r, c)
IsProductOf(m, a, b) ==
    /\ m.height = a.height
    /\ m.width = b.width
    /\ Len(m.values) = a.height * b.width
    /\ \A r \in 0..(a.height - 1), c \in 0..(b.width - 1) :
           m.values[r * b.width + c + 1] = RowByColumn(a, b, r, c, a.width)

\* C9 as stated: for A of size h x k and B of size k x w the product is the
\* h x w matrix of the row-by-column sums, for square and non-square operands,
\* and Matrix x Tuple is the product with the tuple as a 4x1 column.
C9_RowByColumnProduct ==
    /\ (product # NoProduct /\ lhs.width = rhs.height) =>
           /\ ~product.panic
           /\ IsProductOf(product.m, lhs, rhs)
    /\ image.some =>
           LET column == Matrix(4, 1, <<point.x, point.y, point.z, point.w>>)
           IN  /\ image.tuple.x = RowByColumn(lhs, column, 0, 0, 4)
               /\ image.tuple.y = RowByColumn(lhs, column, 1, 0, 4)
               /\ image.tuple.z = RowByColumn(lhs, column, 2, 0, 4)
               /\ image.tuple.w = RowByColumn(lhs, column, 3, 0, 4)

\* what the code does compute: the product of two square matrices of one size,
\* and the product of a 4x4 matrix and a tuple
SquareProduct ==
    /\ ( /\ product # NoProduct
         /\ lhs.height = lhs.width
         /\ rhs.height = rhs.width
         /\ lhs.width = rhs.height )
       => ~product.panic /\ IsProductOf(product.m, lhs, rhs)
    /\ (product # NoProduct /\ lhs = TestA /\ rhs = TestB) =>
           product.m.values = << R(20), R(22), R(50), R(48),
                                 R(44), R(54), R(114), R(108),
                                 R(40), R(58), R(110), R(102),
                                 R(16), R(26), R(46), R(42) >>
    /\ image.some =>
           LET column == Matrix(4, 1, <<point.x, point.y, point.z, point.w>>)
           IN  \A r \in 0..3 :
                   RowByColumn(lhs, column, r, 0, 4)
                       = <<image.tuple.x, image.tuple.y, image.tuple.z, image.tuple.w>>[r + 1]

\* C10 as stated: a product whose inner dimensions differ is an error, never a
\* matrix.
C10_MismatchIsAnError ==
    (product # NoProduct /\ lhs.width # rhs.height) => product.panic

(***************************************************************************)
(* Properties of determinant and inverse                                   *)
(***************************************************************************)
\* C11: determinant and inverse of a matrix whose height differs from its width
\* always panic and never return a value.
C11_NonSquarePanics ==
    /\ (det # NoValue /\ rhs.height # rhs.width) => det.panic
    /\ (inv # NoProduct /\ rhs.height # rhs.width) => inv.panic
    /\ (inv # NoProduct /\ inv.panic) => rhs.height # rhs.width
    /\ (det # NoValue /\ det.panic) => rhs.height # rhs.width

\* C11 witness: a 2x3 matrix, whose first two rows would fit the 2x2 closed
\* form: both calls panicked
C11_Witness ==
    /\ rhs.height = 2
    /\ rhs.width = 3
    /\ det.panic
    /\ inv.panic

\* the permutations of 1..n
PermutationsOf(n) ==
    {f \in [1..n -> 1..n] : \A i, j \in 1..n : i # j => f[i] # f[j]}

\* +1 for an even number of inversions, -1 for an odd one
Signature(f, n) ==
    IF Cardinality({ij \in (1..n) \X (1..n) : ij[1] < ij[2] /\ f[ij[1]] > f[ij[2]]}) % 2 = 0
    THEN R(1) ELSE R(-1)

\* the product of the cells (i, f[i]) of the rows 1..r
RECURSIVE Diagonal(_, _, _)
Diagonal(m, f, r) ==
    IF r = 0 THEN R(1)
    ELSE FMul(Diagonal(m, f, r - 1), m.values[(r - 1) * m.width + f[r]])

RECURSIVE SumOfTerms(_, _)
SumOfTerms(m, fs) ==
    IF fs = {} THEN R(0)
    ELSE LET f == CHOOSE g \in fs : TRUE
         IN  FAdd(FMul(Signature(f, m.height), Diagonal(m, f, m.height)),
                  SumOfTerms(m, fs \ {f}))

\* the determinant of mathematics (Leibniz): the sum over the permutations f of
\* sign(f) * the product of the cells (i, f(i))
MathDeterminant(m) == SumOfTerms(m, PermutationsOf(m.height))

\* the cofactor of mathematics
MathCofactor(m, r, c) ==
    FMul(IF (r + c) % 2 = 1 THEN R(-1) ELSE R(1), MathDeterminant(Submatrix(m, r, c)))

RECURSIVE RowExpansion(_, _)
RowExpansion(m, n) ==
    IF n = 0 THEN R(0)
    ELSE FAdd(RowExpansion(m, n - 1), FMul(m.values[n], MathCofactor(m, 0, n - 1)))

\* C12: for a square matrix of size 2..4 determinant returns the determinant of
\* mathematics: ad - bc for 2x2, otherwise the expansion along row 0 by the
\* cofactors; every step of the recursion is on a square matrix one smaller.
C12_DeterminantIsDeterminant ==
    (det # NoValue /\ rhs.height = rhs.width /\ rhs.height \in 2..4) =>
        /\ ~det.panic
        /\ det.value = MathDeterminant(rhs)
        /\ rhs.height = 2 =>
               det.value = FSub(FMul(rhs.values[1], rhs.values[4]),
                                FMul(rhs.values[2], rhs.values[3]))
        /\ rhs.height > 2 =>
               /\ det.value = RowExpansion(rhs, rhs.width)
               /\ \A x \in 0..(rhs.width - 1) :
                      /\ Submatrix(rhs, 0, x).height = rhs.height - 1
                      /\ Submatrix(rhs, 0, x).width = rhs.width - 1
                      /\ Len(Submatrix(rhs, 0, x).values) = (rhs.height - 1) * (rhs.width - 1)
        /\ rhs = Det3 => det.value = R(-196)
        /\ rhs = Det4 => det.value = R(-4071)
        /\ rhs = Singular4 => det.value = R(0)
        /\ rhs = InverseA => det.value = R(532)

\* C12 witness: the 4x4 matrix of the tests, determinant -4071
C12_Witness ==
    /\ rhs = Det4
    /\ det = ReturnedValue(R(-4071))

\* C13 as stated: for an invertible square matrix b (its determinant is not 0)
\* b * inverse(b) equals the identity, and (a * b) * inverse(b) equals a.
C13_InverseRoundTrip ==
    (rhs.height = rhs.width /\ rhs.height >= 1 /\ MathDeterminant(rhs) # R(0)) =>
        /\ unit # NoProduct =>
               /\ ~unit.panic
               /\ MatrixEq(unit.m, Identity(rhs.height, rhs.width)) = {TRUE}
        /\ back # NoProduct =>
               /\ ~back.panic
               /\ MatrixEq(back.m, lhs) = {TRUE}

\* what the code does give: the round trip for the sizes 3 and more, whose
\* cofactors are determinants of matrices of size 2 and more
RoundTripFromSize3 ==
    (rhs.height = rhs.width /\ rhs.height >= 3 /\ MathDeterminant(rhs) # R(0)) =>
        /\ inv # NoProduct => ~inv.panic /\ IsInvertible(rhs)
        /\ unit # NoProduct =>
               /\ ~unit.panic
               /\ unit.m = Identity(rhs.height, rhs.width)
        /\ back # NoProduct =>
               /\ ~back.panic
               /\ back.m = lhs

(***************************************************************************)
(* Properties of tuple arithmetic                                          *)
(***************************************************************************)
\* C15: addition and subtraction combine w by plain arithmetic, which gives the
\* point/vector table (point + point has w = 2, vector - point w = -1), and
\* negation and the product and quotient by a scalar act on x, y, z and w.
C15_PointVectorTable ==
    LET a == tupleA
        b == tupleB
        c == result.value
    IN  /\ result.op = "add" =>
            /\ <<c.x, c.y, c.z>> = <<FAdd(a.x, b.x), FAdd(a.y, b.y), FAdd(a.z, b.z)>>
            /\ (IsPoint(a) /\ IsVector(b)) => IsPoint(c)
            /\ (IsVector(a) /\ IsPoint(b)) => IsPoint(c)
            /\ (IsVector(a) /\ IsVector(b)) => IsVector(c)
            /\ (IsPoint(a) /\ IsPoint(b)) => c.w = R(2) /\ ~IsPoint(c) /\ ~IsVector(c)
        /\ result.op = "sub" =>
            /\ <<c.x, c.y, c.z>> = <<FSub(a.x, b.x), FSub(a.y, b.y), FSub(a.z, b.z)>>
            /\ (IsPoint(a) /\ IsPoint(b)) => IsVector(c)
            /\ (IsPoint(a) /\ IsVector(b)) => IsPoint(c)
            /\ (IsVector(a) /\ IsVector(b)) => IsVector(c)
            /\ (IsVector(a) /\ IsPoint(b)) => c.w = R(-1) /\ ~IsPoint(c) /\ ~IsVector(c)
        /\ result.op = "neg" =>
            /\ \A k \in {"x", "y", "z", "w"} : FAdd(c[k], a[k]) = R(0) \/ ~IsFinite(a[k])
            /\ IsPoint(a) => c.w = R(-1)
        /\ result.op = "mul" =>
            /\ \A k \in {"x", "y", "z", "w"} : c[k] = FMul(a[k], factor)
            /\ (IsPoint(a) /\ factor = R(2)) => c.w = R(2)
        /\ result.op = "div" =>
            /\ \A k \in {"x", "y", "z", "w"} : c[k] = FDiv(a[k], factor)
            /\ (IsPoint(a) /\ factor = R(2)) => c.w = Norm(1, 2)
            /\ (IsPoint(a) /\ factor = R(0)) => c.w = Inf

\* C15 witness: the sum of two points, w = 2
C15_Witness ==
    /\ result.op = "add"
    /\ IsPoint(tupleA)
    /\ IsPoint(tupleB)
    /\ result.value.w = R(2)

\* C16 as stated: for every point P and vector V, (P + V) - V equals P within
\* the tolerance, and is a point.
C16_AddThenSubtractIsIdentity ==
    (result.op = "add-sub" /\ IsPoint(tupleA) /\ IsVector(tupleB)) =>
        /\ TupleEq(result.value, tupleA) = {TRUE}
        /\ IsPoint(result.value)

\* C16 amended: (P + V) - V is a point (w = 1) for every point P and vector V;
\* it equals P when the coordinates of V are finite (and the sums are exact),
\* and a coordinate of it is NaN where that of V is infinite
C16_ExactRoundTrip ==
    (result.op = "add-sub" /\ IsPoint(tupleA) /\ IsVector(tupleB)) =>
        /\ IsPoint(result.value)
        /\ TupleFinite(tupleB) =>
               /\ result.value = tupleA
               /\ TupleEq(result.value, tupleA) = {TRUE}
        /\ \A k \in {"x", "y", "z"} :
               (IsFinite(tupleA[k]) /\ ~IsFinite(tupleB[k])) => IsNaN(result.value[k])
        /\ ~TupleFinite(tupleB) => TupleEq(result.value, tupleA) = {FALSE}

\* C16 witness: a point moved by a vector that is not zero, and moved back
C16_Witness ==
    /\ result.op = "add-sub"
    /\ IsPoint(tupleA)
    /\ IsVector(tupleB)
    /\ TupleFinite(tupleB)
    /\ tupleB.x # R(0)
    /\ tupleB.y # R(0)
    /\ result.value = tupleA

\* the dot product of the x, y and z of a and b
Dot3(a, b) == FAdd(FAdd(FMul(a.x, b.x), FMul(a.y, b.y)), FMul(a.z, b.z))

HasNaN(a) == IsNaN(a.x) \/ IsNaN(a.y) \/ IsNaN(a.z)

Crossed == result.op = "cross"

\* C26 as stated: cross is the 3-vector cross product on (x, y, z), its w is 0
\* whatever the w of the arguments, and a.cross(b) == -(b.cross(a)) for all a
\* and b
C26_CrossAntiCommutes ==
    Crossed =>
        /\ FEq(result.value.w, R(0))
        /\ TupleEq(result.value, TupleNeg(Cross(tupleB, tupleA))) = {TRUE}

\* C26 amended: the w of the cross product is always 0; for arguments of
\* finite coordinates it is orthogonal to both and a.cross(b) == -(b.cross(a));
\* where a component of it is NaN (an infinite coordinate times 0) the
\* comparison with -(b.cross(a)) is not true
C26_CrossOfFiniteAntiCommutes ==
    Crossed =>
        /\ FEq(result.value.w, R(0))
        /\ (TupleFinite(tupleA) /\ TupleFinite(tupleB)) =>
               /\ Dot3(result.value, tupleA) = R(0)
               /\ Dot3(result.value, tupleB) = R(0)
               /\ TupleEq(result.value, TupleNeg(Cross(tupleB, tupleA))) = {TRUE}
        /\ HasNaN(result.value) =>
               TupleEq(result.value, TupleNeg(Cross(tupleB, tupleA))) # {TRUE}

\* the cross product of the tests
C26_Witness ==
    /\ Crossed
    /\ tupleA = Vector(R(1), R(2), R(3))
    /\ tupleB = Vector(R(2), R(3), R(4))
    /\ result.value = Vector(R(-1), R(2), R(-1))

\* the cross product of two points
CrossOfPoints ==
    /\ Crossed
    /\ IsPoint(tupleA)
    /\ IsPoint(tupleB)
    /\ result.value # Vector(R(0), R(0), R(0))

(***************************************************************************)
(* Transforms one after the other and chained                              *)
(***************************************************************************)
\* the transforms chained: the scaling and the translation of the tests, and
\* others that do not commute with them
ChainTransforms ==
    {Scaling(R(5), R(5), R(5)), Translation(R(10), R(5), R(7)),
     Scaling(R(2), R(1), Norm(-1, 2)), Translation(R(-1), R(0), Norm(3, 2)),
     Shearing(R(1), R(0), R(0), R(2), R(0), R(0))}

StartPoints == {Point(R(1), R(0), R(1)), Point(R(-2), R(3), Norm(1, 2))}

\* let p2 = &a * &p; let p3 = &b * &p2; let p4 = &c * &p3: the next of them
ApplyNext ==
    /\ Len(moved) < Len(chain)
    /\ moved' = Append(moved, MulTuple(chain[Len(moved) + 1],
                                       IF moved = <<>> THEN start ELSE moved[Len(moved)]))
    /\ UNCHANGED <<start, chain, composed, chained, sphereVars, matrixVars, exportVars,
                   inverseVars, normalVars, tupleVars, shadeVars, lastVars>>

\* let t = &c * &b * &a
Chain ==
    /\ composed = NoProduct
    /\ composed' = Compose(chain[1], chain[2], chain[3])
    /\ UNCHANGED <<start, chain, moved, chained, sphereVars, matrixVars, exportVars,
                   inverseVars, normalVars, tupleVars, shadeVars, lastVars>>

\* let p2 = &t * &p
ApplyChained ==
    /\ composed # NoProduct
    /\ ~composed.panic
    /\ chained = NoImage
    /\ chained' = [some |-> TRUE, tuple |-> MulTuple(composed.m, start)]
    /\ UNCHANGED <<start, chain, moved, composed, sphereVars, matrixVars, exportVars,
                   inverseVars, normalVars, tupleVars, shadeVars, lastVars>>

InitTransform ==
    /\ SceneIdle
    /\ MatrixIdle
    /\ ExportIdle
    /\ InverseIdle
    /\ NormalIdle
    /\ TupleIdle
    /\ LastIdle
    /\ ShadeIdle
    /\ start \in StartPoints
    /\ chain \in [1..3 -> ChainTransforms]
    /\ moved = <<>>
    /\ composed = NoProduct
    /\ chained = NoImage

NextTransform == ApplyNext \/ Chain \/ ApplyChained

SpecTransform == InitTransform /\ [][NextTransform]_vars

(***************************************************************************)
(* A translation and its inverse applied to a tuple                        *)
(***************************************************************************)
\* the offsets of the translations: those of the tests, zero, and a fraction
OffsetsX == {R(5), R(0), Norm(-1, 2)}

OffsetsY == {R(-3), R(0)}

OffsetsZ == {R(2), R(0)}

\* the tuples translated: the point and the vector of the tests, and others
Translated ==
    {Point(R(-3), R(4), R(5)), Vector(R(-3), R(4), R(5)),
     Point(R(0), R(0), R(0)), Vector(R(1), R(0), Norm(-1, 2))}

\* let p2 = &inv * &p, inv the inverse of the transform
MultiplyInverseTuple ==
    /\ inv # NoProduct
    /\ ~inv.panic
    /\ undone = NoImage
    /\ undone' = [some |-> TRUE, tuple |-> MulTuple(inv.m, point)]
    /\ UNCHANGED <<sphereVars, matrixVars, exportVars, inverseVars, normalVars, tupleVars,
                   shadeVars, chainVars, write, sub, render>>

\* let transform = translation(x, y, z): both operand names hold it
InitTranslation ==
    /\ SceneIdle
    /\ ExportIdle
    /\ InverseIdle
    /\ NormalIdle
    /\ TupleIdle
    /\ ShadeIdle
    /\ ChainIdle
    /\ lhs \in {Translation(x, y, z) : x \in OffsetsX, y \in OffsetsY, z \in OffsetsZ}
    /\ rhs = lhs
    /\ product = NoProduct
    /\ point \in Translated
    /\ image = NoImage
    /\ undone = NoImage
    /\ write = NoWrite
    /\ sub = NoSub
    /\ render = NoRender

NextTranslation == MultiplyTuple \/ CallInverse \/ MultiplyInverseTuple

SpecTranslation == InitTranslation /\ [][NextTranslation]_vars

(***************************************************************************)
(* The submatrix of a matrix                                               *)
(***************************************************************************)
Sub3 == Matrix(3, 3, <<R(1), R(5), R(0), R(-3), R(2), R(7), R(0), R(6), R(-3)>>)

Sub4 ==
    Matrix(4, 4, <<R(-6), R(1), R(1), R(6), R(-8), R(5), R(8), R(6),
                   R(-1), R(0), R(8), R(2), R(-7), R(1), R(-1), R(1)>>)

\* let b = a.submatrix(row, column)
CallSubmatrix(row, column) ==
    /\ ~sub.called
    /\ sub' = [called |-> TRUE, row |-> row, column |-> column,
               m |-> Submatrix(rhs, row, column)]
    /\ UNCHANGED <<sphereVars, matrixVars, exportVars, inverseVars, normalVars, tupleVars,
                   shadeVars, chainVars, undone, write, render>>

\* let a = Matrix::from_values(h, w, vec![...]), of h * w values
InitSubmatrix ==
    /\ SceneIdle
    /\ ExportIdle
    /\ InverseIdle
    /\ NormalIdle
    /\ TupleIdle
    /\ ShadeIdle
    /\ ChainIdle
    /\ lhs = NoMatrix
    /\ rhs \in {Sub3, Sub4}
                 \cup {Patterned(h, w, seed) : h \in 1..MaxDim, w \in 1..MaxDim, seed \in {1, 2}}
    /\ product = NoProduct
    /\ point = NoTuple
    /\ image = NoImage
    /\ undone = NoImage
    /\ write = NoWrite
    /\ sub = NoSub
    /\ render = NoRender

NextSubmatrix ==
    \E row \in 0..(rhs.height - 1), column \in 0..(rhs.width - 1) : CallSubmatrix(row, column)

SpecSubmatrix == InitSubmatrix /\ [][NextSubmatrix]_vars

(***************************************************************************)
(* Writes to a canvas                                                      *)
(***************************************************************************)
\* the sizes <<width, height>> of the canvases written to
CanvasSizes == {<<2, 2>>, <<3, 1>>, <<1, 2>>}

\* the colours written
Paints == {Color(R(1), R(0), R(0)), Color(R(1), R(1), R(1))}

\* c.write_pixel(x, y, pixel); a panic ends the program
WriteAt(x, y, pixel) ==
    /\ ~write.panic
    /\ LET written == WritePixel(canvas, x, y, pixel)
       IN  /\ canvas' = written.canvas
           /\ write' = [called |-> TRUE, x |-> x, y |-> y, pixel |-> pixel,
                        panic |-> written.panic]
    /\ UNCHANGED <<out, current_line_length, el, color, pc, sphereVars, matrixVars,
                   inverseVars, normalVars, tupleVars, shadeVars, chainVars, undone, sub,
                   render>>

\* let mut c = Canvas::new(width, height)
InitCanvas ==
    /\ SceneIdle
    /\ MatrixIdle
    /\ InverseIdle
    /\ NormalIdle
    /\ TupleIdle
    /\ ShadeIdle
    /\ ChainIdle
    /\ canvas \in {CanvasNew(size[1], size[2]) : size \in CanvasSizes}
    /\ out = <<>>
    /\ current_line_length = 0
    /\ el = 0
    /\ color = 0
    /\ pc = "idle"
    /\ undone = NoImage
    /\ write = NoWrite
    /\ sub = NoSub
    /\ render = NoRender

\* the coordinates given to write_pixel: those of the canvas, and the next
\* column and the next row
NextCanvas ==
    \E x \in 0..canvas.width, y \in 0..canvas.height, pixel \in Paints : WriteAt(x, y, pixel)

SpecCanvas == InitCanvas /\ [][NextCanvas]_vars

(***************************************************************************)
(* main (main.rs): the sphere rendered to a canvas, then exported          *)
(***************************************************************************)
\* let canvas_pixel = 200: the width and the height of the canvas
canvas_pixel == 3

wall_z == 10

wall_size == 7

\* let ray_origin = Tuple::point(0.0, 0.0, -5.0)
ray_origin == Point(R(0), R(0), R(-5))

\* let pixel_size = wall_size / canvas_pixel as f64
pixel_size == FDiv(R(wall_size), R(canvas_pixel))

\* let half = wall_size / 2.0
half == FDiv(R(wall_size), R(2))

\* Material::default() after set_color(Color::new(1.0, 0.2, 1.0))
MainMaterial == [MaterialDefault EXCEPT !.color = Color(R(1), Norm(1, 5), R(1))]

\* PointLight::new(Tuple::point(-10.0, 10.0, -10.0), Color::new(1.0, 1.0, 1.0))
MainLight == PointLight(Point(R(-10), R(10), R(-10)), Color(R(1), R(1), R(1)))

\* let world_y = half - pixel_size * y as f64
WorldY(y) == FSub(half, FMul(pixel_size, R(y)))

\* let world_x = -half + pixel_size * x as f64
WorldX(x) == FAdd(FNeg(half), FMul(pixel_size, R(x)))

\* let r = Ray::new(ray_origin.clone(), (position - &ray_origin).normalize())
PixelRay(x, y) ==
    LET wall == Point(WorldX(x), WorldY(y), R(wall_z))
    IN  Ray(ray_origin, Normalize(TupleSub(wall, ray_origin)))

\* What a ray of main that hits the sphere yields: the roots t1 <= t2 that
\* intersects returns and the colour that lighting returns at the hit.  With the
\* rounded direction of the ray the roots are beyond the width of the integers
\* of the model, and so is lighting's powf with the shininess 200: the ray
\* through the centre of the sphere (t = 4 and 6) with the colour of the
\* material, and a ray off the centre with the colour in the shade (the ambient
\* term alone), stand for them
HitOutcomes ==
    {[t1 |-> R(4), t2 |-> R(6), color |-> MainMaterial.color],
     [t1 |-> Norm(9, 2), t2 |-> Norm(16, 3),
      color |-> ColorScale(ColorMul(MainMaterial.color, MainLight.intensity),
                           MainMaterial.ambient)]}

\* the colours written
Shades == {outcome.color : outcome \in HitOutcomes}

\* s.intersects(&r) for a ray of main, and the colour of its hit.  A ray that
\* misses goes through SphereIntersects; one that hits yields one of HitOutcomes
PixelCasts(r) ==
    IF FLt(Quadratic(ObjectRay(SphereDefault.transform, r)).discriminant, R(0))
    THEN {[xs |-> SphereIntersects("s1", SphereDefault, r), color |-> ColorDefault]}
    ELSE {[xs |-> <<IntersectionNew(outcome.t1, Owner("s1")),
                    IntersectionNew(outcome.t2, Owner("s1"))>>,
           color |-> outcome.color] : outcome \in HitOutcomes}

\* the loops mutated: for x in 0..width { for y in 0..height
AdvanceByColumn(at, width, height) ==
    IF at.y + 1 < height THEN [y |-> at.y + 1, x |-> at.x]
    ELSE [y |-> IF at.x + 1 < width THEN 0 ELSE height, x |-> at.x + 1]

\* for y in 0..canvas.height() { for x in 0..canvas.width(): the coordinate
\* after at; y = height when the loops are over
Advance(at, width, height) ==
    IF at.x + 1 < width THEN [y |-> at.y, x |-> at.x + 1]
    ELSE [y |-> at.y + 1, x |-> 0]

\* one turn of the inner loop: the ray through the pixel (x, y), its hit, and
\* the pixel written when there is one.  A panic (of from_hit's unwrap, of
\* write_pixel) ends the program
CastRay ==
    /\ render.stage = "render"
    /\ render.y < canvas.height
    /\ LET r == PixelRay(render.x, render.y)
       IN  \E cast \in PixelCasts(r) :
               LET found == FromHit(cast.xs)
                   written == WritePixel(canvas, render.x, render.y, cast.color)
                   next == Advance(render, canvas.width, canvas.height)
                   seen == [x |-> render.x, y |-> render.y, xs |-> cast.xs,
                            hit |-> found]
               IN  /\ ray' = r
                   /\ xs' = cast.xs
                   /\ hit' = found
                   /\ IF found.some
                      THEN /\ canvas' = written.canvas
                           /\ write' = [called |-> TRUE, x |-> render.x, y |-> render.y,
                                        pixel |-> cast.color, panic |-> written.panic]
                      ELSE UNCHANGED <<canvas, write>>
                   /\ render' =
                          [stage |-> IF found.panic \/ (found.some /\ written.panic)
                                     THEN "panic" ELSE "render",
                           y |-> next.y, x |-> next.x,
                           visited |-> Append(render.visited, seen),
                           written |-> IF found.some
                                       THEN Append(render.written, <<render.x, render.y>>)
                                       ELSE render.written]
    /\ UNCHANGED <<spheres, self, out, current_line_length, el, color, pc, matrixVars,
                   inverseVars, normalVars, tupleVars, shadeVars, chainVars, undone, sub>>

\* export_ppm(&canvas), after the loops: the exporter, the file and the writer
\* are made, and exporter.export(&c, &mut writer) is called
ExportPpm ==
    /\ render.stage = "render"
    /\ render.y >= canvas.height
    /\ pc = "none"
    /\ render' = [render EXCEPT !.stage = "export"]
    /\ pc' = "idle"
    /\ UNCHANGED <<canvas, out, current_line_length, el, color, sphereVars, matrixVars,
                   inverseVars, normalVars, tupleVars, shadeVars, chainVars, undone,
                   write, sub>>

\* main before its loops: the canvas, the material, the sphere and the light
Init ==
    /\ SceneIdle
    /\ MatrixIdle
    /\ InverseIdle
    /\ NormalIdle
    /\ TupleIdle
    /\ ChainIdle
    /\ canvas = CanvasNew(canvas_pixel, canvas_pixel)
    /\ out = <<>>
    /\ current_line_length = 0
    /\ el = 0
    /\ color = 0
    /\ pc = "none"
    /\ material = MainMaterial
    /\ other = MaterialDefault
    /\ light = MainLight
    /\ position = NoTuple
    /\ eye_vec = NoTuple
    /\ normal_vec = NoTuple
    /\ shading = NoShading
    /\ equal = {}
    /\ undone = NoImage
    /\ write = NoWrite
    /\ sub = NoSub
    /\ render = [NoRender EXCEPT !.stage = "render"]

Next == CastRay \/ ExportPpm \/ ExportHeader \/ ExportSample \/ ExportReturn

Spec == Init /\ [][Next]_vars

(***************************************************************************)
(* The comparison of materials (set_* and ==)                              *)
(***************************************************************************)
\* a difference below the tolerance of the comparisons: 2^-17 < 0.00001
Near == Norm(1, 131072)

White == Color(R(1), R(1), R(1))

NearWhite == Color(FAdd(R(1), Near), R(1), R(1))

\* the values the setters store: that of the default material, one within
\* the tolerance of it, and one far from it
Colors == {White, NearWhite, Color(R(1), R(1), Norm(1, 2))}

Ambients == {Norm(1, 10), FAdd(Norm(1, 10), Near), Norm(1, 5)}

Diffuses == {Norm(9, 10), FAdd(Norm(9, 10), Near), Norm(1, 2)}

Speculars == {Norm(9, 10), FAdd(Norm(9, 10), Near), Norm(1, 2)}

Shininesses == {R(200), FAdd(R(200), Near), R(10)}

\* the materials compared to: the default one and two made by Material::new
Others ==
    {MaterialDefault,
     Material(NearWhite, Norm(1, 10), Norm(9, 10), Norm(9, 10), R(200)),
     Material(White, FAdd(Norm(1, 10), Near), Norm(9, 10), Norm(9, 10), R(200))}

SetColor(c) ==
    /\ equal = {}
    /\ material' = [material EXCEPT !.color = c]
    /\ UNCHANGED <<other, light, position, eye_vec, normal_vec, shading, equal,
                   sphereVars, matrixVars, exportVars, inverseVars, normalVars,
                   tupleVars, chainVars, lastVars>>

SetAmbient(ambient) ==
    /\ equal = {}
    /\ material' = [material EXCEPT !.ambient = ambient]
    /\ UNCHANGED <<other, light, position, eye_vec, normal_vec, shading, equal,
                   sphereVars, matrixVars, exportVars, inverseVars, normalVars,
                   tupleVars, chainVars, lastVars>>

SetDiffuse(diffuse) ==
    /\ equal = {}
    /\ material' = [material EXCEPT !.diffuse = diffuse]
    /\ UNCHANGED <<other, light, position, eye_vec, normal_vec, shading, equal,
                   sphereVars, matrixVars, exportVars, inverseVars, normalVars,
                   tupleVars, chainVars, lastVars>>

SetSpecular(specular) ==
    /\ equal = {}
    /\ material' = [material EXCEPT !.specular = specular]
    /\ UNCHANGED <<other, light, position, eye_vec, normal_vec, shading, equal,
                   sphereVars, matrixVars, exportVars, inverseVars, normalVars,
                   tupleVars, chainVars, lastVars>>

SetShininess(shininess) ==
    /\ equal = {}
    /\ material' = [material EXCEPT !.shininess = shininess]
    /\ UNCHANGED <<other, light, position, eye_vec, normal_vec, shading, equal,
                   sphereVars, matrixVars, exportVars, inverseVars, normalVars,
                   tupleVars, chainVars, lastVars>>

\* material == other
Compare ==
    /\ equal = {}
    /\ equal' = MaterialEq(material, other)
    /\ UNCHANGED <<material, other, light, position, eye_vec, normal_vec, shading,
                   sphereVars, matrixVars, exportVars, inverseVars, normalVars,
                   tupleVars, chainVars, lastVars>>

InitMaterial ==
    /\ SceneIdle
    /\ MatrixIdle
    /\ ExportIdle
    /\ InverseIdle
    /\ NormalIdle
    /\ TupleIdle
    /\ LastIdle
    /\ ChainIdle
    /\ material = MaterialDefault
    /\ other \in Others
    /\ light = PointLight(NoTuple, ColorDefault)
    /\ position = NoTuple
    /\ eye_vec = NoTuple
    /\ normal_vec = NoTuple
    /\ shading = NoShading
    /\ equal = {}

NextMaterial ==
    \/ \E c \in Colors : SetColor(c)
    \/ \E ambient \in Ambients : SetAmbient(ambient)
    \/ \E diffuse \in Diffuses : SetDiffuse(diffuse)
    \/ \E specular \in Speculars : SetSpecular(specular)
    \/ \E shininess \in Shininesses : SetShininess(shininess)
    \/ Compare

SpecMaterial == InitMaterial /\ [][NextMaterial]_vars

(***************************************************************************)
(* Properties of the shading                                               *)
(***************************************************************************)
Black == Color(R(0), R(0), R(0))

\* material.color (x) light.intensity, scaled by material.ambient
AmbientTerm == ColorScale(ColorMul(material.color, light.intensity), material.ambient)

LightBehind == shading.called /\ FLt(shading.light_dot_normal, R(0))

LightInFront == shading.called /\ FGe(shading.light_dot_normal, R(0))

\* C17: when the light is behind the surface (dot(light_vector, normal) < 0)
\* the diffuse and the specular term are black and lighting returns the
\* ambient term alone, whatever the eye vector is
C17_BehindIsAmbientOnly ==
    LightBehind =>
        /\ shading.diffuse = Black
        /\ shading.specular = Black
        /\ shading.color = AmbientTerm

C17_Witness ==
    /\ LightBehind
    /\ material = MaterialDefault
    /\ light = PointLight(Point(R(0), R(0), R(10)), Color(R(1), R(1), R(1)))
    /\ eye_vec = Vector(R(0), R(0), R(-1))
    /\ shading.color = Color(Norm(1, 10), Norm(1, 10), Norm(1, 10))

\* the test's head-on scene: the eye between the light and the surface
HeadOn ==
    /\ material = MaterialDefault
    /\ light = PointLight(Point(R(0), R(0), R(-10)), Color(R(1), R(1), R(1)))
    /\ position = Point(R(0), R(0), R(0))
    /\ eye_vec = Vector(R(0), R(0), R(-1))
    /\ normal_vec = Vector(R(0), R(0), R(-1))

\* no channel of the light, and not the specular coefficient, is zero
SpecularCanShow ==
    /\ \A channel \in {Red(light.intensity), Green(light.intensity), Blue(light.intensity)} :
           channel # R(0)
    /\ material.specular # R(0)

\* C18: with dot(light_vector, normal) >= 0 the specular term is black when
\* reflect_dot_eye <= 0 and only then, and otherwise it is light.intensity *
\* material.specular * reflect_dot_eye^shininess; the colour returned is
\* ambient + diffuse + specular unclamped, 1.9 a channel in the head-on scene
C18_SpecularAndSum ==
    LightInFront =>
        /\ FLe(shading.reflect_dot_eye, R(0)) => shading.specular = Black
        /\ ~FLe(shading.reflect_dot_eye, R(0)) =>
               shading.specular =
                   ColorScale(ColorScale(light.intensity, material.specular),
                              Powf(shading.reflect_dot_eye, material.shininess))
        /\ SpecularCanShow /\ shading.specular = Black =>
               FLe(shading.reflect_dot_eye, R(0))
        /\ Red(shading.color) =
               FAdd(FAdd(Red(shading.ambient), Red(shading.diffuse)), Red(shading.specular))
        /\ Green(shading.color) =
               FAdd(FAdd(Green(shading.ambient), Green(shading.diffuse)), Green(shading.specular))
        /\ Blue(shading.color) =
               FAdd(FAdd(Blue(shading.ambient), Blue(shading.diffuse)), Blue(shading.specular))
        /\ HeadOn => shading.color = Color(Norm(19, 10), Norm(19, 10), Norm(19, 10))

C18_Witness ==
    /\ LightInFront
    /\ HeadOn
    /\ FLt(R(1), Red(shading.color))
    /\ shading.specular = Color(Norm(9, 10), Norm(9, 10), Norm(9, 10))

\* the specular term of a coloured material under a coloured light, the eye
\* off the path of the reflection
SpecularOffPath ==
    /\ LightInFront
    /\ FLt(R(0), shading.reflect_dot_eye)
    /\ FLt(shading.reflect_dot_eye, R(1))
    /\ Red(material.color) # Green(material.color)
    /\ shading.specular # Black

(***************************************************************************)
(* Properties of the comparison of materials                               *)
(***************************************************************************)
\* a and b equal, or apart by 0.00001 at most
Close(a, b) == a = b \/ WithinEpsilon(a, b)

Compared == equal # {}

ScalarsClose ==
    /\ Close(material.ambient, other.ambient)
    /\ Close(material.diffuse, other.diffuse)
    /\ Close(material.specular, other.specular)
    /\ Close(material.shininess, other.shininess)

ChannelsClose ==
    /\ Close(Red(material.color), Red(other.color))
    /\ Close(Green(material.color), Green(other.color))
    /\ Close(Blue(material.color), Blue(other.color))

\* C19 as stated: two materials compare equal exactly when ambient, diffuse,
\* specular and shininess are equal within 1e-5 and the colours are exactly
\* equal, no tolerance being applied to the colour channels
C19_ExactColour ==
    Compared => (equal = {TRUE} <=> ScalarsClose /\ material.color = other.color)

\* C19 amended: two materials compare equal exactly when ambient, diffuse,
\* specular and shininess and the three colour channels are each equal
\* within 1e-5
C19_ToleranceOnEveryField ==
    Compared =>
        /\ equal \in {{TRUE}, {FALSE}}
        /\ equal = {TRUE} <=> ScalarsClose /\ ChannelsClose

C19_Witness ==
    /\ equal = {TRUE}
    /\ material.color # other.color
    /\ material.shininess # other.shininess

(***************************************************************************)
(* Properties of chained transforms                                        *)
(***************************************************************************)
BothWays == chained.some /\ Len(moved) = Len(chain)

\* C20: transforms compose by matrix multiplication right to left: for the
\* transforms a, b, c and the point p, (c * b * a) * p equals c * (b * (a * p)),
\* a applied first, then b, then c
C20_ChainedIsInSequence ==
    BothWays => TupleEq(chained.tuple, moved[Len(moved)]) = {TRUE}

\* a shearing, then the scaling and the translation of the tests: they do
\* not commute
C20_Witness ==
    /\ BothWays
    /\ start = Point(R(1), R(0), R(1))
    /\ chain = <<Shearing(R(1), R(0), R(0), R(2), R(0), R(0)), Scaling(R(5), R(5), R(5)),
                 Translation(R(10), R(5), R(7))>>
    /\ chained.tuple = Point(R(15), R(15), R(12))
    /\ MulTuple(ComposeForward(chain[1], chain[2], chain[3]).m, start) # chained.tuple

(***************************************************************************)
(* Properties of the determinant of a 1x1 matrix                           *)
(***************************************************************************)
\* C27 as stated: for a 1x1 matrix [a] determinant returns a, so that
\* is_invertible is true exactly when a is not 0
C27_DeterminantOfOneCell ==
    (rhs.height = 1 /\ rhs.width = 1 /\ det # NoValue) =>
        /\ ~det.panic
        /\ det.value = rhs.values[1]
        /\ IsInvertible(rhs) <=> rhs.values[1] # R(0)

\* what the code does: the determinant of a 1x1 matrix of a finite cell is 0
\* (the cell times the determinant of the 0x0 submatrix, an empty sum), and
\* is_invertible is false
OneCellIsSingular ==
    (rhs.height = 1 /\ rhs.width = 1 /\ det # NoValue) =>
        /\ ~det.panic
        /\ det.value = R(0)
        /\ ~IsInvertible(rhs)

(***************************************************************************)
(* Properties of the submatrix                                             *)
(***************************************************************************)
\* the index in the matrix of the index i of the submatrix, one line dropped
Skip(i, dropped) == IF i < dropped THEN i ELSE i + 1

\* C25: submatrix(row, col) of an h x w matrix, row < h and col < w, is the
\* (h-1) x (w-1) matrix of exactly the cells whose row is not row and whose
\* column is not col, in their row-major order
C25_SubmatrixDropsRowAndColumn ==
    sub.called =>
        /\ sub.m.height = rhs.height - 1
        /\ sub.m.width = rhs.width - 1
        /\ Len(sub.m.values) = (rhs.height - 1) * (rhs.width - 1)
        /\ \A y \in 0..(rhs.height - 2), x \in 0..(rhs.width - 2) :
               Cell(sub.m, y, x) = Cell(rhs, Skip(y, sub.row), Skip(x, sub.column))

C25_Witness ==
    /\ sub.called
    /\ rhs = Sub4
    /\ sub.row = 2
    /\ sub.column = 1
    /\ sub.m = Matrix(3, 3, <<R(-6), R(1), R(6), R(-8), R(8), R(6), R(-7), R(-1), R(1)>>)

\* the submatrix of a matrix that is not square
SubmatrixOfWide ==
    /\ sub.called
    /\ rhs.height = 2
    /\ rhs.width = 3
    /\ sub.row = 1
    /\ sub.column = 0

(***************************************************************************)
(* Properties of the canvas                                                *)
(***************************************************************************)
\* the coordinates of the canvas c
Coordinates(c) == (0..(c.width - 1)) \X (0..(c.height - 1))

\* a step is a call of write_pixel that returned or panicked
Wrote == write' # write \/ canvas' # canvas

WroteInside == Wrote /\ write'.x < canvas.width /\ write'.y < canvas.height

WroteOutside == Wrote /\ (write'.x >= canvas.width \/ write'.y >= canvas.height)

\* C24: Canvas::new(w, h) holds w*h pixels, all black; write_pixel(x, y, c)
\* with x < w and y < h makes pixel_at(x, y) return c and leaves every other
\* pixel, the width and the height unchanged, so that each pixel holds the
\* colour of the last write to its coordinate
C24_WriteSetsOnePixel ==
    /\ Len(canvas.pixels) = canvas.width * canvas.height
    /\ \A at \in Coordinates(canvas) : PixelAt(canvas, at[1], at[2]) = Color(R(0), R(0), R(0))
    /\ [][WroteInside =>
             /\ ~write'.panic
             /\ PixelAt(canvas', write'.x, write'.y) = write'.pixel
             /\ \A at \in Coordinates(canvas) \ {<<write'.x, write'.y>>} :
                    PixelAt(canvas', at[1], at[2]) = PixelAt(canvas, at[1], at[2])
             /\ canvas'.width = canvas.width
             /\ canvas'.height = canvas.height
             /\ Len(canvas'.pixels) = Len(canvas.pixels)]_vars

\* the test's write, and a second write to another pixel
C24_Witness ==
    /\ canvas.width = 3
    /\ write.called
    /\ write.x = 2
    /\ write.y = 0
    /\ ~write.panic
    /\ PixelAt(canvas, 2, 0) = Color(R(1), R(0), R(0))
    /\ PixelAt(canvas, 0, 0) = Color(R(1), R(1), R(1))
    /\ PixelAt(canvas, 1, 0) = Color(R(0), R(0), R(0))

\* C28 as stated: write_pixel(x, y, c) with x >= width or y >= height changes
\* no pixel of the canvas: it fails instead of writing to the storage of
\* another coordinate
C28_OutsideWritesNothing ==
    [][WroteOutside => write'.panic /\ canvas' = canvas]_vars

\* what the code does: a write with y >= height panics
OutsideBelowPanics ==
    [][Wrote /\ write'.y >= canvas.height => write'.panic /\ canvas' = canvas]_vars

\* a write beside the canvas that landed in the next row
StrayWrite ==
    /\ write.called
    /\ ~write.panic
    /\ write.x >= canvas.width
    /\ PixelAt(canvas, write.x - canvas.width, write.y + 1) = write.pixel

(***************************************************************************)
(* What the operations on a sphere change                                  *)
(***************************************************************************)
\* a step of set_transform sets the transform of its sphere to its argument
\* and leaves the other spheres alone; no other step changes a sphere; the
\* result of intersects and of normal_at is that of the unchanged sphere on
\* the arguments given
SphereStep ==
    /\ \A object \in Spheres, m \in Transforms :
           SetTransform(object, m) =>
               /\ spheres'[object].transform = m
               /\ \A o \in Spheres \ {object} : spheres'[o] = spheres[o]
    /\ spheres' # spheres => \E object \in Spheres, m \in Transforms : SetTransform(object, m)
    /\ (self = "none" /\ self' # "none" /\ ~normal'.some) =>
           /\ Intersects(self', ray')
           /\ xs' = SphereIntersects(self', spheres'[self'], ray')
    /\ (self = "none" /\ self' # "none" /\ normal'.some) =>
           /\ NormalAt(self', normal'.point)
           /\ normal'.n = SphereNormalAt(spheres'[self'], normal'.point)

\* C23: the transform of a sphere is the identity after Sphere::default and
\* from then on the argument of the most recent set_transform; intersects and
\* normal_at change neither the sphere nor the ray they are given, so that the
\* same call on the same arguments gives the same result
C23_OnlySetTransformChanges ==
    /\ \A o \in Spheres : spheres[o].transform = Identity(4, 4)
    /\ [][SphereStep]_vars

C23_Witness ==
    /\ spheres["s1"].transform = Scaling(R(2), R(2), R(2))
    /\ spheres["s2"].transform = Translation(R(5), R(0), R(0))
    /\ self = "s1"
    /\ Intersected
    /\ Len(xs) = 2

(***************************************************************************)
(* Properties of the normal of a sphere                                    *)
(***************************************************************************)
\* x is a square whose root FSqrt returns without rounding
ExactRoot(x) ==
    /\ IsFinite(x)
    /\ x[1] >= 0
    /\ ISqrt(x[1] * x[2]) * ISqrt(x[1] * x[2]) = x[1] * x[2]

\* normal_at was called on a sphere whose transform is invertible, and the
\* magnitude of the world normal is a root the model computes exactly
NormalOfInvertible ==
    /\ normal.some
    /\ IsInvertible(spheres[self].transform)
    /\ ExactRoot(Dot(WorldNormal(spheres[self], normal.point),
                     WorldNormal(spheres[self], normal.point)))

\* the world point is the centre of the sphere: the object normal is zero
AtCentre == WorldNormal(spheres[self], normal.point) = Vector(R(0), R(0), R(0))

IsUnitNormal(n) ==
    /\ FEq(n.w, R(0))
    /\ FEq(Magnitude(n), R(1))
    /\ TupleEq(Normalize(n), n) = {TRUE}

\* C22 as stated: normal_at returns a vector (w = 0) of magnitude 1 for every
\* world point and every invertible transform, and normalizing it again gives
\* the same vector
C22_UnitNormalEverywhere == NormalOfInvertible => IsUnitNormal(normal.n)

\* C22 amended: normal_at returns a vector (w = 0) of magnitude 1, which
\* normalizing again leaves the same, for every invertible transform and
\* every world point other than the centre of the sphere; at the centre
\* every component of the result, w included, is NaN
C22_UnitNormalOffCentre ==
    NormalOfInvertible =>
        IF AtCentre
        THEN normal.n = Tuple(NaN, NaN, NaN, NaN)
        ELSE IsUnitNormal(normal.n)

C22_Witness ==
    /\ NormalOfInvertible
    /\ spheres[self].transform = Scaling(R(2), R(2), R(2))
    /\ normal.point = Point(R(0), R(3), R(4))
    /\ normal.n = Vector(R(0), Norm(3, 5), Norm(4, 5))

\* the normal asked for at the centre of a translated sphere
NormalAtCentre ==
    /\ NormalOfInvertible
    /\ AtCentre
    /\ normal.point # Point(R(0), R(0), R(0))

(***************************************************************************)
(* Properties of a translation                                             *)
(***************************************************************************)
\* C21: translation(x, y, z) applied to a point adds (x, y, z) to its
\* coordinates and keeps w = 1, applied to a vector leaves it unchanged, and
\* its inverse applied to a point subtracts (x, y, z)
C21_TranslationMovesPoints ==
    \A x \in OffsetsX, y \in OffsetsY, z \in OffsetsZ :
        lhs = Translation(x, y, z) =>
            /\ image.some /\ IsPoint(point) =>
                   image.tuple = Point(FAdd(point.x, x), FAdd(point.y, y), FAdd(point.z, z))
            /\ image.some /\ IsVector(point) => image.tuple = point
            /\ undone.some /\ IsPoint(point) =>
                   undone.tuple = Point(FSub(point.x, x), FSub(point.y, y), FSub(point.z, z))

C21_Witness ==
    /\ lhs = Translation(R(5), R(-3), R(2))
    /\ point = Point(R(-3), R(4), R(5))
    /\ image.some
    /\ image.tuple = Point(R(2), R(1), R(7))
    /\ undone.some
    /\ undone.tuple = Point(R(-8), R(7), R(3))

\* the vector of the tests translated
TranslatedVector ==
    /\ lhs = Translation(R(5), R(-3), R(2))
    /\ point = Vector(R(-3), R(4), R(5))
    /\ image.some

(***************************************************************************)
(* Properties of the export                                                *)
(***************************************************************************)
IsSeparator(byte) == byte = " " \/ byte = "\n"

\* the bytes written after the header
Body == SubSeq(out, Len(Header(canvas)) + 1, Len(out))

\* the separators written after the header, in order: one after each sample
Separators == SelectSeq(Body, IsSeparator)

\* the number of samples of a canvas row
RowSamples == canvas.width * 3

\* C5 as stated: every line of the output is at most 70 characters long (any 71
\* consecutive bytes hold a newline).
C5_LinesAtMost70Characters ==
    \A i \in 1..(Len(out) - MAX_PPM_LINE_LENGTH) :
        \E j \in i..(i + MAX_PPM_LINE_LENGTH) : out[j] = "\n"

\* what the wrap does bound: the samples of a line, not its characters (any 71
\* consecutive separators hold a newline)
LinesAtMost70Samples ==
    \A i \in 1..(Len(Separators) - MAX_PPM_LINE_LENGTH) :
        \E j \in i..(i + MAX_PPM_LINE_LENGTH) : Separators[j] = "\n"

\* C6 as stated: the output ends with a newline byte, also for rows of more than
\* 70 samples.
C6_EndsWithNewline == pc = "done" => out[Len(out)] = "\n"

\* C7 as stated: the last sample of every canvas row is followed by a newline,
\* for every width.
C7_RowsEndLines ==
    (pc = "done" /\ canvas.width > 0) =>
        \A row \in 1..canvas.height : Separators[row * RowSamples] = "\n"

\* what the code does for the rows it can count: rows of fewer than 70 samples
\* end their line, and the output ends with a newline
ShortRowsEndLines ==
    (pc = "done" /\ canvas.width > 0 /\ RowSamples < MAX_PPM_LINE_LENGTH) =>
        /\ \A row \in 1..canvas.height : Separators[row * RowSamples] = "\n"
        /\ out[Len(out)] = "\n"

\* the channel values of the canvas, in the order of the export
Channels ==
    [k \in 1..(3 * Len(canvas.pixels)) |->
        LET pixel == canvas.pixels[((k - 1) \div 3) + 1]
        IN  <<Red(pixel), Green(pixel), Blue(pixel)>>[((k - 1) % 3) + 1]]

\* px clamped to [0, 1]
Clamped(px) == IF FLt(px, R(0)) THEN R(0) ELSE IF FLt(R(1), px) THEN R(1) ELSE px

\* b is 255 * px rounded to the nearest integer, a half rounded up
IsNearest(b, px) ==
    /\ FLe(FSub(R(b), Norm(1, 2)), FMul(px, R(255)))
    /\ FLt(FMul(px, R(255)), FAdd(R(b), Norm(1, 2)))

DigitValue(byte) == CHOOSE d \in 0..9 : Digit(d) = byte

\* the number a sequence of digits spells
RECURSIVE Atoi(_)
Atoi(digits) ==
    IF digits = <<>> THEN 0
    ELSE 10 * Atoi(SubSeq(digits, 1, Len(digits) - 1)) + DigitValue(digits[Len(digits)])

\* the digits of the last sample written: the bytes between the last two separators
LastSample ==
    LET body == Body
        before == {i \in 1..(Len(body) - 1) : IsSeparator(body[i])}
        from == IF before = {} THEN 1 ELSE (CHOOSE i \in before : \A j \in before : j <= i) + 1
    IN  SubSeq(body, from, Len(body) - 1)

\* C8: every channel value is written as an integer in 0..255, its value clamped
\* to [0, 1], times 255, rounded: values <= 0 give 0, values >= 1 give 255, 0.5
\* gives 128; the mapping is monotonic.
C8_ChannelToByte ==
    /\ (pc = "pixels" /\ Len(Body) > 0) =>
        LET px == Channels[Len(Separators)]
            b == Atoi(LastSample)
        IN  /\ b \in 0..255
            /\ ~IsNaN(px) => IsNearest(b, Clamped(px))
            /\ FLe(px, R(0)) => b = 0
            /\ FGe(px, R(1)) => b = 255
            /\ px = Norm(1, 2) => b = 128
    /\ pc = "done" =>
        \A j, k \in 1..Len(Channels) :
            FLe(Channels[j], Channels[k]) => GetOutVal(Channels[j]) <= GetOutVal(Channels[k])

\* C8 witness: the canvas of tests::ppm_export_creates_data, two rows high,
\* exported: 1.5 written as 255, 0.5 as 128, -0.5 as 0
C8_Witness ==
    /\ pc = "done"
    /\ canvas.width = 5
    /\ canvas.height = 2
    /\ Red(canvas.pixels[1]) = Norm(3, 2)
    /\ Green(canvas.pixels[8]) = Norm(1, 2)
    /\ Red(canvas.pixels[10]) = Norm(-1, 2)
    /\ SubSeq(Body, 1, 4) = <<"2", "5", "5", " ">>
    /\ SubSeq(Body, 47, 50) = <<"1", "2", "8", " ">>
    /\ SubSeq(Body, 59, 66) = <<"0", " ", "0", " ", "2", "5", "5", "\n">>

\* the positions in Body of the separators
Ends == SelectSeq([i \in 1..Len(Body) |-> i], LAMBDA i : IsSeparator(Body[i]))

\* the k-th sample written: the bytes between two separators, at ends
SampleAt(ends, k) == SubSeq(Body, IF k = 1 THEN 1 ELSE ends[k - 1] + 1, ends[k] - 1)

Sample(k) == SampleAt(Ends, k)

\* the k-th sample of the canvas: pixels in their order, red, green, blue
SampleOf(c, k) ==
    LET pixel == c.pixels[((k - 1) \div 3) + 1]
    IN  Itoa(GetOutVal((<<Red(pixel), Green(pixel), Blue(pixel)>>)[((k - 1) % 3) + 1]))

SamplesInOrder ==
    pc # "idle" =>
        LET ends == Ends
        IN  /\ SubSeq(out, 1, Len(Header(canvas))) = Header(canvas)
            /\ Len(ends) = 3 * el + color
            /\ Body # <<>> => IsSeparator(Body[Len(Body)])
            /\ \A k \in 1..Len(ends) : SampleAt(ends, k) = SampleOf(canvas, k)
            /\ pc = "done" => Len(ends) = 3 * canvas.width * canvas.height

\* C29: after the header export writes exactly 3 * width * height samples, the
\* pixels in row-major order and red, green, blue within a pixel, each sample
\* followed by exactly one separator (a space or a newline), and the canvas
\* is not modified
C29_SamplesInOrder == []SamplesInOrder /\ [][canvas' = canvas]_vars

C29_Witness ==
    /\ pc = "done"
    /\ canvas.width = 5
    /\ canvas.height = 2
    /\ Len(Ends) = 30
    /\ Sample(1) = <<"2", "5", "5">>
    /\ Sample(2) = <<"0">>
    /\ Sample(30) = <<"2", "5", "5">>

\* the coordinates of the turns of the loop whose from_hit returned an
\* intersection, in the order of the turns
HitCoordinates ==
    LET hits == SelectSeq(render.visited, LAMBDA seen : seen.hit.some)
    IN  [k \in 1..Len(hits) |-> <<hits[k].x, hits[k].y>>]

\* the k-th turn of the loops was at the k-th coordinate in row-major order
RowMajor ==
    \A k \in 1..Len(render.visited) :
        /\ render.visited[k].x = (k - 1) % canvas.width
        /\ render.visited[k].y = (k - 1) \div canvas.width
        /\ render.visited[k].y < canvas.height

\* the loops are over: every coordinate had its turn
LoopsOver ==
    /\ render.y >= canvas.height
    /\ Len(render.visited) = canvas.width * canvas.height

\* write_pixel was called once for every turn with a hit, at the coordinate of
\* the turn, and for no other; the hit of a turn has t >= 0
WrittenOnHit ==
    /\ render.written = HitCoordinates
    /\ \A j, k \in 1..Len(render.written) :
           render.written[j] = render.written[k] => j = k
    /\ \A k \in 1..Len(render.visited) :
           LET seen == render.visited[k]
           IN  seen.hit.some => FGe(IntersectionT(seen.xs[seen.hit.at]), R(0))
    /\ write.called =>
           /\ ~write.panic
           /\ <<write.x, write.y>> = render.written[Len(render.written)]
           /\ PixelAt(canvas, write.x, write.y) = write.pixel

\* the pixel of a ray that misses the sphere, and of a turn yet to come, is black
MissIsBlack ==
    \A x \in 0..(canvas.width - 1), y \in 0..(canvas.height - 1) :
        LET k == y * canvas.width + x + 1
        IN  (k > Len(render.visited) \/ render.visited[k].xs = <<>>
                 \/ ~render.visited[k].hit.some)
                => PixelAt(canvas, x, y) = ColorDefault

\* C30: the render loop of main visits every pixel coordinate (x < width,
\* y < height) exactly once in row-major order, calls write_pixel at most once
\* per coordinate and only when from_hit returned an intersection (whose t is
\* >= 0), leaves every pixel whose ray misses the sphere black, and starts the
\* export only after the last pixel was processed
C30_RenderThenExport ==
    /\ RowMajor
    /\ render.y >= canvas.height => LoopsOver
    /\ WrittenOnHit
    /\ MissIsBlack
    /\ pc # "none" => LoopsOver /\ render.stage = "export"
    /\ render.stage # "panic"

\* the export of a rendered canvas is done: the ray through the corner missed,
\* rays through the middle hit
C30_Witness ==
    /\ pc = "done"
    /\ LoopsOver
    /\ render.visited[1].xs = <<>>
    /\ PixelAt(canvas, 0, 0) = ColorDefault
    /\ render.written # <<>>
    /\ PixelAt(canvas, render.written[1][1], render.written[1][2]) \in Shades
    /\ Len(out) > Len(Header(canvas))

=============================================================================
